---------------------------- MODULE Spec2Model ----------------------------
(***************************************************************************)
(* Verification model of AudioQuality-rs.                                  *)
(*                                                                         *)
(*   Part 1  ProcessLimiter and run_command   (src/src/analyzer/ffmpeg.rs) *)
(*   Part 2  process_file fan-out and merge   (src/src/analyzer/ffmpeg.rs) *)
(*   Part 3  numeric token parsing            (src/src/analyzer/ffmpeg.rs) *)
(*   Part 4  AnalysisCache                    (src/src/analyzer/cache.rs)  *)
(*                                                                         *)
(* Every part has its own initial predicate and next-state relation; the   *)
(* variables of the other parts keep their idle values.                    *)
(***************************************************************************)
EXTENDS Integers, Sequences, FiniteSets, TLC

VARIABLES
    \* ---- Part 1: ProcessLimiter / run_command
    max_parallel,   \* ProcessLimiter.max_parallel
    running,        \* the usize behind ProcessLimiter.state's Mutex
    waiters,        \* threads blocked in Condvar::wait
    pc,             \* position of every run_command invocation
    permit,         \* whether the invocation owns a ProcessPermit
    child,          \* the external process of the invocation
    rdOut,          \* the stdout reader thread
    rdErr,          \* the stderr reader thread
    elapsed,        \* start.elapsed() as the poll loop reads it, in poll
                    \* intervals; 0 again once the loop is left
    result,         \* what run_command returned
    log,            \* the calls the invocation has made, in order
    \* ---- Part 2: process_file
    pf_pc,          \* position of process_file
    file_size,      \* file_size_bytes as path.metadata() gave it
    opState,        \* each of the six operations: pending, running, done
    opRes,          \* what each operation returned
    metrics,        \* the FileMetrics process_file returned
    \* ---- Part 3: numeric tokens of the reports
    p_pc,           \* "input" before the report is parsed, "parsed" after
    p_field,        \* the field whose value text is under test
    p_text,         \* that value text, as the report prints it after the label
    p_stream,       \* value texts of the streaming lines for that field
    p_res,          \* what the operation made of it
    \* ---- Part 4: AnalysisCache
    cache_entries,  \* AnalysisCache.entries: key -> CacheEntry
    looked,         \* the last lookup: its arguments and what it returned
    processed,      \* the ProcessedRecord process_one_file returns on a hit
    upserted,       \* the upsert that has just returned: its arguments, the
                    \* fingerprint of the entry it replaced and the entries
                    \* the other keys had before it
    \* ---- Part 5: run_analysis
    run_pc,         \* where run_analysis is
    cache_enabled,  \* AppConfig.cache_enabled
    cache_file,     \* what the storage holds at .audio_quality_cache.json
    cache_data,     \* the cache run_analysis loads, merges into and saves
    cache_snapshot, \* its clone, handed to the workers
    file_pc,        \* where process_one_file is, per discovered file
    file_rec,       \* what process_one_file returned, per file
    processed_records,  \* the records collected from the workers
    results,        \* the metrics pushed by the merge loop
    loads,          \* calls of AnalysisCache::load in this run
    saves,          \* calls of AnalysisCache::save in this run
    first_run,      \* what every file returned in the run before this one
    \* ---- Part 6: QualityScorer
    score_pc,       \* "input" before analyze_file, "analyzed" after
    scorer_profile, \* QualityScorer.profile
    scored_metrics, \* the FileMetrics handed to analyze_file
    analysis,       \* the QualityAnalysis it returned
    \* ---- Part 7: the functions of the scorer, called one at a time
    fn_pc,          \* "input" before the call, "returned" after
    fn_call,        \* the function called and its arguments
    fn_ret          \* what it returned

limVars == <<max_parallel, running, waiters, pc, permit, child, rdOut, rdErr,
             elapsed, result, log>>

pfVars == <<pf_pc, file_size, opState, opRes, metrics>>

parseVars == <<p_pc, p_field, p_text, p_stream, p_res>>

cacheVars == <<cache_entries, looked, processed, upserted>>

runVars == <<run_pc, cache_enabled, cache_file, cache_data, cache_snapshot,
             file_pc, file_rec, processed_records, results, loads, saves,
             first_run>>

scoreVars == <<score_pc, scorer_profile, scored_metrics, analysis>>

fnVars == <<fn_pc, fn_call, fn_ret>>

\* what an action of the limiter and run_command leaves alone
notLimiter == <<pfVars, parseVars, cacheVars, runVars, scoreVars,
                 fnVars>>

\* what an action of process_file leaves alone
notProcessFile == <<limVars, parseVars, cacheVars, runVars, scoreVars,
                     fnVars>>

\* what an action of the parsers leaves alone
notParse == <<limVars, pfVars, cacheVars, runVars, scoreVars,
               fnVars>>

\* what an action of the cache leaves alone
notCache == <<limVars, pfVars, parseVars, runVars, scoreVars,
               fnVars>>

\* what an action of the scorer leaves alone
notScore == <<limVars, pfVars, parseVars, cacheVars, runVars,
               fnVars>>

\* what an action of one run of run_analysis leaves alone: the other parts
\* and the record of the run before
notRun == <<limVars, pfVars, parseVars, cacheVars, scoreVars,
             fnVars, first_run>>

\* what a call of one function of the scorer leaves alone
notFn == <<limVars, pfVars, parseVars, cacheVars, runVars, scoreVars>>

vars == <<limVars, pfVars, parseVars, cacheVars, runVars, scoreVars, fnVars>>

\* Option<T>
None == <<>>
Some(v) == <<v>>

-----------------------------------------------------------------------------
\* Idle values: what the variables of a part hold while another part runs.

IdleLimiter ==
    /\ max_parallel = 1
    /\ running = 0
    /\ waiters = {}
    /\ pc = <<>>
    /\ permit = <<>>
    /\ child = <<>>
    /\ rdOut = <<>>
    /\ rdErr = <<>>
    /\ elapsed = <<>>
    /\ result = <<>>
    /\ log = <<>>

IdleParse ==
    /\ p_pc = "idle"
    /\ p_field = ""
    /\ p_text = <<>>
    /\ p_stream = <<>>
    /\ p_res = <<>>

IdleFn ==
    /\ fn_pc = "idle"
    /\ fn_call = <<>>
    /\ fn_ret = <<>>

IdleScore ==
    /\ score_pc = "idle"
    /\ scorer_profile = ""
    /\ scored_metrics = <<>>
    /\ analysis = <<>>

IdleRun ==
    /\ run_pc = "idle"
    /\ cache_enabled = FALSE
    /\ cache_file = <<>>
    /\ cache_data = <<>>
    /\ cache_snapshot = <<>>
    /\ file_pc = <<>>
    /\ file_rec = <<>>
    /\ processed_records = <<>>
    /\ results = <<>>
    /\ loads = 0
    /\ saves = 0
    /\ first_run = <<>>

IdleCache ==
    /\ cache_entries = <<>>
    /\ looked = <<>>
    /\ processed = <<>>
    /\ upserted = <<>>

IdleProcessFile ==
    /\ pf_pc = "idle"
    /\ file_size = 0
    /\ opState = <<>>
    /\ opRes = <<>>
    /\ metrics = <<>>

-----------------------------------------------------------------------------
(***************************************************************************)
(* Part 1.  ProcessLimiter and run_command                                 *)
(***************************************************************************)

\* number of concurrent run_command invocations followed step by step
NumThreads == 2
\* number of concurrent acquire calls when only the limiter is followed
NumCallers == 4
\* largest value of --max-ffmpeg-processes tried (0 is a legal usize)
MaxConfigured == 2
\* command_timeout counted in 25 ms poll intervals
TimeoutTicks == 1

Threads == 1..NumThreads
Callers == 1..NumCallers

Max(a, b) == IF a >= b THEN a ELSE b

\* usize::saturating_sub
SaturatingSub(a, b) == IF a >= b THEN a - b ELSE 0

\* ProcessLimiter::new: max_parallel.max(1)
LimiterNew(max) == Max(max, 1)

\* build_app_config: cli.max_ffmpeg_processes.unwrap_or(default).max(1)
BuildMaxFfmpegProcesses(configured) == Max(configured, 1)

NoResult == [kind |-> "none", code |-> "", status_ok |-> FALSE,
             stdout |-> "none", stderr |-> "none"]

\* Err(anyhow!("[code] ..."));  code "" is an error whose text carries no code
ErrResult(code) == [kind |-> "err", code |-> code, status_ok |-> FALSE,
                    stdout |-> "none", stderr |-> "none"]

\* Ok(CommandOutput { status_ok, stdout, stderr, status_text })
OkResult(ok, out, err) == [kind |-> "ok", code |-> "", status_ok |-> ok,
                           stdout |-> out, stderr |-> err]

\* the state after ProcessLimiter::new, with the invocations T about to
\* call acquire
InitLimiter(T) ==
    /\ \E configured \in 0..MaxConfigured :
          max_parallel = LimiterNew(BuildMaxFfmpegProcesses(configured))
    /\ running = 0
    /\ waiters = {}
    /\ pc = [t \in T |-> "acquire"]
    /\ permit = [t \in T |-> FALSE]
    /\ child = [t \in T |-> "none"]
    /\ rdOut = [t \in T |-> "none"]
    /\ rdErr = [t \in T |-> "none"]
    /\ elapsed = [t \in T |-> 0]
    /\ result = [t \in T |-> NoResult]
    /\ log = [t \in T |-> <<>>]

\* the fields only run_command's body touches
procVars == <<child, rdOut, rdErr, elapsed, result>>

\* AcquireEnter with the loop test off by one (`>` for `>=`)
AcquireEnter_OffByOne(t) ==
    /\ pc[t] = "acquire"
    /\ running <= max_parallel
    /\ running' = running + 1
    /\ permit' = [permit EXCEPT ![t] = TRUE]
    /\ pc' = [pc EXCEPT ![t] = "spawn"]
    /\ log' = [log EXCEPT ![t] = Append(@, "acquire")]
    /\ UNCHANGED <<max_parallel, waiters, procVars>>
    /\ UNCHANGED notLimiter

\* ProcessLimiter::acquire, the slot is free: leave the loop, *running += 1
AcquireEnter(t) ==
    /\ pc[t] = "acquire"
    /\ running < max_parallel
    /\ running' = running + 1
    /\ permit' = [permit EXCEPT ![t] = TRUE]
    /\ pc' = [pc EXCEPT ![t] = "spawn"]
    /\ log' = [log EXCEPT ![t] = Append(@, "acquire")]
    /\ UNCHANGED <<max_parallel, waiters, procVars>>
    /\ UNCHANGED notLimiter

\* ProcessLimiter::acquire, no slot: cv.wait releases the mutex and blocks
AcquireWait(t) ==
    /\ pc[t] = "acquire"
    /\ running >= max_parallel
    /\ waiters' = waiters \cup {t}
    /\ pc' = [pc EXCEPT ![t] = "waiting"]
    /\ log' = [log EXCEPT ![t] = IF @ = <<>> THEN <<"blocked">> ELSE @]
    /\ UNCHANGED <<max_parallel, running, permit, procVars>>
    /\ UNCHANGED notLimiter

\* Condvar::wait may return without a notification; the while loop re-checks
SpuriousWake(t) ==
    /\ pc[t] = "waiting"
    /\ t \in waiters
    /\ waiters' = waiters \ {t}
    /\ pc' = [pc EXCEPT ![t] = "acquire"]
    /\ UNCHANGED <<max_parallel, running, permit, log, procVars>>
    /\ UNCHANGED notLimiter

\* DropPermit without the cv.notify_one() call
DropPermit_NoNotify(t) ==
    /\ pc[t] = "drop"
    /\ permit[t]
    /\ running' = SaturatingSub(running, 1)
    /\ permit' = [permit EXCEPT ![t] = FALSE]
    /\ log' = [log EXCEPT ![t] = Append(@, "drop")]
    /\ pc' = [pc EXCEPT ![t] = "done"]
    /\ UNCHANGED <<max_parallel, waiters, procVars>>
    /\ UNCHANGED notLimiter

\* impl Drop for ProcessPermit, run when run_command's _permit leaves scope:
\* *running = running.saturating_sub(1); cv.notify_one() wakes one blocked
\* thread, any of them, or nobody when none is blocked
DropPermit(t) ==
    /\ pc[t] = "drop"
    /\ permit[t]
    /\ running' = SaturatingSub(running, 1)
    /\ permit' = [permit EXCEPT ![t] = FALSE]
    /\ log' = [log EXCEPT ![t] = Append(@, "drop")]
    /\ \E w \in DOMAIN pc :
          /\ (waiters # {} => w \in waiters)
          /\ (waiters = {} => w = t)
          /\ IF waiters = {}
             THEN /\ waiters' = waiters
                  /\ pc' = [pc EXCEPT ![t] = "done"]
             ELSE /\ waiters' = waiters \ {w}
                  /\ pc' = [pc EXCEPT ![t] = "done", ![w] = "acquire"]
    /\ UNCHANGED <<max_parallel, procVars>>
    /\ UNCHANGED notLimiter

\* command.spawn() at the head of run_command
Spawn(t) ==
    /\ pc[t] = "spawn"
    /\ \/ /\ child' = [child EXCEPT ![t] = "live"]
          /\ pc' = [pc EXCEPT ![t] = "take_stdout"]
          /\ log' = [log EXCEPT ![t] = Append(@, "spawn")]
          /\ UNCHANGED result
       \/ /\ result' = [result EXCEPT ![t] = ErrResult("E_EXEC_SPAWN")]
          /\ pc' = [pc EXCEPT ![t] = "drop"]
          /\ log' = [log EXCEPT ![t] = Append(@, "ret")]
          /\ UNCHANGED child
    /\ UNCHANGED <<max_parallel, running, waiters, permit, rdOut, rdErr, elapsed>>
    /\ UNCHANGED notLimiter

\* child.stdout.take().ok_or_else(E_EXEC_STDOUT)?
TakeStdout(t) ==
    /\ pc[t] = "take_stdout"
    /\ \/ /\ pc' = [pc EXCEPT ![t] = "take_stderr"]
          /\ UNCHANGED <<result, log>>
       \/ /\ result' = [result EXCEPT ![t] = ErrResult("E_EXEC_STDOUT")]
          /\ pc' = [pc EXCEPT ![t] = "drop"]
          /\ log' = [log EXCEPT ![t] = Append(@, "ret")]
    /\ UNCHANGED <<max_parallel, running, waiters, permit, child, rdOut, rdErr,
                   elapsed>>
    /\ UNCHANGED notLimiter

\* child.stderr.take().ok_or_else(E_EXEC_STDERR)?, then both thread::spawn
\* calls and Instant::now()
TakeStderr(t) ==
    /\ pc[t] = "take_stderr"
    /\ \/ /\ rdOut' = [rdOut EXCEPT ![t] = "live"]
          /\ rdErr' = [rdErr EXCEPT ![t] = "live"]
          /\ elapsed' = [elapsed EXCEPT ![t] = 0]
          /\ pc' = [pc EXCEPT ![t] = "poll"]
          /\ UNCHANGED <<result, log>>
       \/ /\ result' = [result EXCEPT ![t] = ErrResult("E_EXEC_STDERR")]
          /\ pc' = [pc EXCEPT ![t] = "drop"]
          /\ log' = [log EXCEPT ![t] = Append(@, "ret")]
          /\ UNCHANGED <<rdOut, rdErr, elapsed>>
    /\ UNCHANGED <<max_parallel, running, waiters, permit, child>>
    /\ UNCHANGED notLimiter

\* the external process ends by itself (environment)
ChildExits(t) ==
    /\ child[t] = "live"
    /\ child' = [child EXCEPT ![t] = "zombie"]
    /\ UNCHANGED <<max_parallel, running, waiters, pc, permit, rdOut, rdErr,
                   elapsed, result, log>>
    /\ UNCHANGED notLimiter

\* TryWaitFails leaving the function without dropping _permit (as
\* std::mem::forget, or a permit released by hand on the other paths only)
TryWaitFails_Leak(t) ==
    /\ pc[t] = "poll"
    /\ result' = [result EXCEPT ![t] = ErrResult("E_EXEC_WAIT")]
    /\ pc' = [pc EXCEPT ![t] = "done"]
    /\ log' = [log EXCEPT ![t] = Append(@, "ret")]
    /\ elapsed' = [elapsed EXCEPT ![t] = 0]
    /\ UNCHANGED <<max_parallel, running, waiters, permit, child, rdOut, rdErr>>
    /\ UNCHANGED notLimiter

\* child.try_wait() returned Err: context(E_EXEC_WAIT)?
TryWaitFails(t) ==
    /\ pc[t] = "poll"
    /\ result' = [result EXCEPT ![t] = ErrResult("E_EXEC_WAIT")]
    /\ pc' = [pc EXCEPT ![t] = "drop"]
    /\ log' = [log EXCEPT ![t] = Append(@, "ret")]
    /\ elapsed' = [elapsed EXCEPT ![t] = 0]
    /\ UNCHANGED <<max_parallel, running, waiters, permit, child, rdOut, rdErr>>
    /\ UNCHANGED notLimiter

\* child.try_wait() returned Some(status): the process ended and is reaped;
\* the status is kept in result.status_ok until the readers are joined
TryWaitExited(t) ==
    /\ pc[t] = "poll"
    /\ child[t] = "zombie"
    /\ \E ok \in BOOLEAN :
          result' = [result EXCEPT ![t] = [NoResult EXCEPT !.status_ok = ok]]
    /\ child' = [child EXCEPT ![t] = "reaped"]
    /\ pc' = [pc EXCEPT ![t] = "join_stdout"]
    /\ log' = [log EXCEPT ![t] = Append(@, "exited")]
    /\ elapsed' = [elapsed EXCEPT ![t] = 0]
    /\ UNCHANGED <<max_parallel, running, waiters, permit, rdOut, rdErr>>
    /\ UNCHANGED notLimiter

\* child.try_wait() returned None and start.elapsed() <= command_timeout:
\* thread::sleep(25 ms) and poll again
PollSleep(t) ==
    /\ pc[t] = "poll"
    /\ child[t] = "live"
    /\ ~(elapsed[t] > TimeoutTicks)
    /\ elapsed' = [elapsed EXCEPT ![t] = @ + 1]
    /\ UNCHANGED <<max_parallel, running, waiters, pc, permit, child, rdOut,
                   rdErr, result, log>>
    /\ UNCHANGED notLimiter

\* child.try_wait() returned None and start.elapsed() > command_timeout
PollTimeout(t) ==
    /\ pc[t] = "poll"
    /\ child[t] = "live"
    /\ elapsed[t] > TimeoutTicks
    /\ pc' = [pc EXCEPT ![t] = "kill"]
    /\ log' = [log EXCEPT ![t] = Append(@, "timeout")]
    /\ UNCHANGED <<max_parallel, running, waiters, permit, child, rdOut, rdErr,
                   elapsed, result>>
    /\ UNCHANGED notLimiter

\* Kill going on to the joins without child.wait()
Kill_NoWait(t) ==
    /\ pc[t] = "kill"
    /\ child' = [child EXCEPT ![t] = "zombie"]
    /\ pc' = [pc EXCEPT ![t] = "tjoin_stdout"]
    /\ log' = [log EXCEPT ![t] = Append(@, "kill")]
    /\ UNCHANGED <<max_parallel, running, waiters, permit, rdOut, rdErr, elapsed,
                   result>>
    /\ UNCHANGED notLimiter

\* let _ = child.kill()
Kill(t) ==
    /\ pc[t] = "kill"
    /\ child' = [child EXCEPT ![t] = "zombie"]
    /\ pc' = [pc EXCEPT ![t] = "wait"]
    /\ log' = [log EXCEPT ![t] = Append(@, "kill")]
    /\ UNCHANGED <<max_parallel, running, waiters, permit, rdOut, rdErr, elapsed,
                   result>>
    /\ UNCHANGED notLimiter

\* let _ = child.wait(): blocks until the process has ended, reaps it
Wait(t) ==
    /\ pc[t] = "wait"
    /\ child[t] = "zombie"
    /\ child' = [child EXCEPT ![t] = "reaped"]
    /\ pc' = [pc EXCEPT ![t] = "tjoin_stdout"]
    /\ log' = [log EXCEPT ![t] = Append(@, "wait")]
    /\ UNCHANGED <<max_parallel, running, waiters, permit, rdOut, rdErr, elapsed,
                   result>>
    /\ UNCHANGED notLimiter

\* let _ = stdout_thread.join() on the timeout path: the outcome is dropped
TimeoutJoinStdout(t) ==
    /\ pc[t] = "tjoin_stdout"
    /\ rdOut' = [rdOut EXCEPT ![t] = "joined"]
    /\ pc' = [pc EXCEPT ![t] = "tjoin_stderr"]
    /\ log' = [log EXCEPT ![t] = Append(@, "join_stdout")]
    /\ UNCHANGED <<max_parallel, running, waiters, permit, child, rdErr, elapsed,
                   result>>
    /\ UNCHANGED notLimiter

\* let _ = stderr_thread.join(); return Err(E_TIMEOUT)
TimeoutJoinStderr(t) ==
    /\ pc[t] = "tjoin_stderr"
    /\ rdErr' = [rdErr EXCEPT ![t] = "joined"]
    /\ result' = [result EXCEPT ![t] = ErrResult("E_TIMEOUT")]
    /\ pc' = [pc EXCEPT ![t] = "drop"]
    /\ log' = [log EXCEPT ![t] = Append(Append(@, "join_stderr"), "ret")]
    /\ UNCHANGED <<max_parallel, running, waiters, permit, child, rdOut, elapsed>>
    /\ UNCHANGED notLimiter

\* what `join().map_err(|_| anyhow!(code))??` makes of a reader's outcome:
\* a panic is Err(code), an I/O error is that error (its text has no code)
JoinError(outcome, code) ==
    IF outcome = "panic" THEN ErrResult(code) ELSE ErrResult("")

\* stdout_thread.join().map_err(E_EXEC_STDOUT)??
JoinStdout(t) ==
    /\ pc[t] = "join_stdout"
    /\ \E outcome \in {"ok", "ioerr", "panic"} :
          /\ rdOut' = [rdOut EXCEPT ![t] = outcome]
          /\ IF outcome = "ok"
             THEN /\ pc' = [pc EXCEPT ![t] = "join_stderr"]
                  /\ log' = [log EXCEPT ![t] = Append(@, "join_stdout")]
                  /\ UNCHANGED result
             ELSE /\ result' = [result EXCEPT
                                  ![t] = JoinError(outcome, "E_EXEC_STDOUT")]
                  /\ pc' = [pc EXCEPT ![t] = "drop"]
                  /\ log' = [log EXCEPT
                               ![t] = Append(Append(@, "join_stdout"), "ret")]
    /\ UNCHANGED <<max_parallel, running, waiters, permit, child, rdErr, elapsed>>
    /\ UNCHANGED notLimiter

\* JoinStderr taking a failed reader's output as empty (unwrap_or_default)
JoinStderr_Swallow(t) ==
    /\ pc[t] = "join_stderr"
    /\ \E outcome \in {"ok", "ioerr", "panic"} :
          /\ rdErr' = [rdErr EXCEPT ![t] = outcome]
          /\ result' = [result EXCEPT ![t] =
                OkResult(result[t].status_ok, "captured",
                         IF outcome = "ok" THEN "captured" ELSE "empty")]
    /\ pc' = [pc EXCEPT ![t] = "drop"]
    /\ log' = [log EXCEPT ![t] = Append(Append(@, "join_stderr"), "ret")]
    /\ UNCHANGED <<max_parallel, running, waiters, permit, child, rdOut, elapsed>>
    /\ UNCHANGED notLimiter

\* stderr_thread.join().map_err(E_EXEC_STDERR)??, then Ok(CommandOutput {..})
\* with the bytes both readers returned
JoinStderr(t) ==
    /\ pc[t] = "join_stderr"
    /\ \E outcome \in {"ok", "ioerr", "panic"} :
          /\ rdErr' = [rdErr EXCEPT ![t] = outcome]
          /\ result' = [result EXCEPT ![t] =
                IF outcome = "ok"
                THEN OkResult(result[t].status_ok, "captured", "captured")
                ELSE JoinError(outcome, "E_EXEC_STDERR")]
    /\ pc' = [pc EXCEPT ![t] = "drop"]
    /\ log' = [log EXCEPT ![t] = Append(Append(@, "join_stderr"), "ret")]
    /\ UNCHANGED <<max_parallel, running, waiters, permit, child, rdOut, elapsed>>
    /\ UNCHANGED notLimiter

\* one step of run_command's own thread
RunStep(t) ==
    \/ AcquireEnter(t)
    \/ AcquireWait(t)
    \/ Spawn(t)
    \/ TakeStdout(t)
    \/ TakeStderr(t)
    \/ TryWaitFails(t)
    \/ TryWaitExited(t)
    \/ PollSleep(t)
    \/ PollTimeout(t)
    \/ Kill(t)
    \/ Wait(t)
    \/ TimeoutJoinStdout(t)
    \/ TimeoutJoinStderr(t)
    \/ JoinStdout(t)
    \/ JoinStderr(t)
    \/ DropPermit(t)

Next ==
    \E t \in Threads :
        \/ RunStep(t)
        \/ SpuriousWake(t)
        \/ ChildExits(t)

Init ==
    /\ InitLimiter(Threads)
    /\ IdleProcessFile
    /\ IdleParse
    /\ IdleCache
    /\ IdleRun
    /\ IdleScore
    /\ IdleFn

Spec == Init /\ [][Next]_vars

\* The limiter alone: what a holder does between acquire's return and the
\* end of run_command is one step.
UsePermit(t) ==
    /\ pc[t] = "spawn"
    /\ pc' = [pc EXCEPT ![t] = "drop"]
    /\ result' = [result EXCEPT ![t] = ErrResult("")]
    /\ UNCHANGED <<max_parallel, running, waiters, permit, child, rdOut, rdErr,
                   elapsed, log>>
    /\ UNCHANGED notLimiter

LimiterStep(t) ==
    \/ AcquireEnter(t)
    \/ AcquireWait(t)
    \/ UsePermit(t)
    \/ DropPermit(t)

NextLimiter ==
    \E t \in Callers :
        \/ LimiterStep(t)
        \/ SpuriousWake(t)

InitCallers ==
    /\ InitLimiter(Callers)
    /\ IdleProcessFile
    /\ IdleParse
    /\ IdleCache
    /\ IdleRun
    /\ IdleScore
    /\ IdleFn

SpecLimiter == InitCallers /\ [][NextLimiter]_vars

\* the scheduler lets every thread that can take a step take one, so every
\* holder goes on to drop its permit; a spurious wake-up is not promised
FairSpecLimiter == SpecLimiter /\ \A t \in Callers : WF_vars(LimiterStep(t))

-----------------------------------------------------------------------------
(***************************************************************************)
(* Properties of ProcessLimiter and run_command                            *)
(***************************************************************************)

\* the invocations that own a permit
Outstanding == {t \in DOMAIN pc : permit[t]}

\* the first position of event e in sequence s, 0 when it is not there
IndexOf(s, e) ==
    IF \E i \in 1..Len(s) : s[i] = e
    THEN CHOOSE i \in 1..Len(s) : s[i] = e /\ \A j \in 1..(i - 1) : s[j] # e
    ELSE 0

\* s from position i on
From(s, i) == SubSeq(s, i, Len(s))

IsPrefix(s, r) == Len(s) <= Len(r) /\ s = SubSeq(r, 1, Len(s))

\* C1: with maximum N, however the acquire calls and the drops interleave,
\* the number of permits acquired and not yet dropped never exceeds N.
C1_OutstandingPermitsBounded == Cardinality(Outstanding) <= max_parallel

\* C1 witness: the limit is reached and a further acquire call is blocked
C1_Witness ==
    /\ Cardinality(Outstanding) = max_parallel
    /\ \E t \in DOMAIN pc : pc[t] = "waiting"

\* C2: every exit path of run_command releases the permit it acquired: the
\* counter is the number of invocations between acquire and drop, a returned
\* invocation owns no permit, and the counter is 0 when none is in progress.
C2_EveryExitReleases ==
    /\ running = Cardinality(Outstanding)
    /\ \A t \in DOMAIN pc : pc[t] = "done" => ~permit[t] /\ result[t].kind # "none"
    /\ (\A t \in DOMAIN pc : pc[t] = "done") => running = 0

\* C2 witness: every invocation has returned, one of them by a failed exit
\* poll and one with a CommandOutput
C2_Witness ==
    /\ \A t \in DOMAIN pc : pc[t] = "done"
    /\ \E t \in DOMAIN pc : result[t].code = "E_EXEC_WAIT"
    /\ \E t \in DOMAIN pc : result[t].kind = "ok"

\* C3: whatever maximum is configured (0 counts as 1), when every holder goes
\* on to drop its permit every acquire call returns: a caller that is in
\* acquire, blocked or not, eventually owns a permit.
C3_EveryAcquireReturns ==
    \A t \in Callers : (pc[t] \in {"acquire", "waiting"}) ~> permit[t]

\* C3 witness: a caller that was blocked in cv.wait owns a permit, under a
\* limiter configured with 0
C3_Witness ==
    \E t \in DOMAIN pc :
        /\ permit[t]
        /\ log[t] = <<"blocked", "acquire">>
        /\ max_parallel = 1

\* the order run_command keeps once the poll loop sees the timeout
TimeoutOrder ==
    <<"timeout", "kill", "wait", "join_stdout", "join_stderr", "ret", "drop">>

\* C4: when the poll loop finds the process alive past the timeout, the
\* runner kills it, waits for it, joins the stdout and stderr readers, in that
\* order, and only then returns the E_TIMEOUT error, which carries no output;
\* the permit is dropped after that.
C4_TimeoutCleanupOrder ==
    \A t \in DOMAIN pc :
        LET i == IndexOf(log[t], "timeout") IN
        /\ i > 0 =>
              /\ IsPrefix(From(log[t], i), TimeoutOrder)
              /\ (IndexOf(log[t], "wait") > 0 => child[t] = "reaped")
              /\ (IndexOf(log[t], "ret") > 0 =>
                    /\ result[t] = ErrResult("E_TIMEOUT")
                    /\ child[t] = "reaped"
                    /\ rdOut[t] = "joined"
                    /\ rdErr[t] = "joined")
              /\ (IndexOf(log[t], "ret") = 0 => result[t].kind = "none")
              /\ (pc[t] = "done" => ~permit[t])
        /\ result[t].code = "E_TIMEOUT" => i > 0

\* C4 witness: an invocation has returned the timeout error and dropped its
\* permit
C4_Witness ==
    \E t \in DOMAIN pc :
        /\ pc[t] = "done"
        /\ result[t].code = "E_TIMEOUT"
        /\ elapsed[t] > TimeoutTicks

ReaderFailed(outcome) == outcome \in {"ioerr", "panic"}

\* C5: when the process ended by itself and a reader thread failed with an
\* I/O error or a panic, run_command returns an error; a CommandOutput is
\* returned only with what both readers captured in full.
C5_ReaderFailurePropagates ==
    \A t \in DOMAIN pc :
        /\ (pc[t] \in {"drop", "done"}
              /\ (ReaderFailed(rdOut[t]) \/ ReaderFailed(rdErr[t])))
           => result[t].kind = "err"
        /\ result[t].kind = "ok" =>
              /\ rdOut[t] = "ok" /\ rdErr[t] = "ok"
              /\ result[t].stdout = "captured"
              /\ result[t].stderr = "captured"

\* C5 witness: the process ended with success, stdout was read, the stderr
\* reader panicked, and the invocation returned
C5_Witness ==
    \E t \in DOMAIN pc :
        /\ pc[t] = "done"
        /\ child[t] = "reaped"
        /\ rdOut[t] = "ok"
        /\ rdErr[t] = "panic"
        /\ result[t] = ErrResult("E_EXEC_STDERR")

-----------------------------------------------------------------------------
(***************************************************************************)
(* Part 2.  process_file: the fan-out of the six operations and the merge  *)
(***************************************************************************)

\* largest measured value an operation reports
MaxValue == 1

\* the five closures of the nested rayon::join, then the probe
FfmpegOps == {"ebur128", "stats", "rms16k", "rms18k", "rms20k"}
Ops == FfmpegOps \cup {"probe"}

\* the bytes of the error codes the messages of this file carry, and of the
\* fallback codes of process_file
Utf8 == [
    E_EBUR128 |-> <<69, 95, 69, 66, 85, 82, 49, 50, 56>>,
    E_STATS |-> <<69, 95, 83, 84, 65, 84, 83>>,
    E_RMS16K |-> <<69, 95, 82, 77, 83, 49, 54, 75>>,
    E_RMS18K |-> <<69, 95, 82, 77, 83, 49, 56, 75>>,
    E_RMS20K |-> <<69, 95, 82, 77, 83, 50, 48, 75>>,
    E_FFPROBE |-> <<69, 95, 70, 70, 80, 82, 79, 66, 69>>,
    E_EXEC_SPAWN |-> <<69, 95, 69, 88, 69, 67, 95, 83, 80, 65, 87, 78>>,
    E_EXEC_STDOUT |-> <<69, 95, 69, 88, 69, 67, 95, 83, 84, 68, 79, 85, 84>>,
    E_EXEC_STDERR |-> <<69, 95, 69, 88, 69, 67, 95, 83, 84, 68, 69, 82, 82>>,
    E_EXEC_WAIT |-> <<69, 95, 69, 88, 69, 67, 95, 87, 65, 73, 84>>,
    E_TIMEOUT |-> <<69, 95, 84, 73, 77, 69, 79, 85, 84>>,
    E_EXEC_FAILED |-> <<69, 95, 69, 88, 69, 67, 95, 70, 65, 73, 76, 69, 68>>,
    E_PARSE_EBUR128 |->
        <<69, 95, 80, 65, 82, 83, 69, 95, 69, 66, 85, 82, 49, 50, 56>>,
    E_PARSE_STATS |-> <<69, 95, 80, 65, 82, 83, 69, 95, 83, 84, 65, 84, 83>>,
    E_PARSE_HIGHPASS |->
        <<69, 95, 80, 65, 82, 83, 69, 95, 72, 73, 71, 72, 80, 65, 83, 83>>,
    E_FFPROBE_FAILED |->
        <<69, 95, 70, 70, 80, 82, 79, 66, 69, 95, 70, 65, 73, 76, 69, 68>>,
    E_PARSE_FFPROBE |->
        <<69, 95, 80, 65, 82, 83, 69, 95, 70, 70, 80, 82, 79, 66, 69>>]

\* the strings ERROR_CODE_REGEX matches between brackets
ErrorCodes == DOMAIN Utf8

\* String's Ord: byte-wise lexicographic, a proper prefix first
RECURSIVE BytesLess(_, _)
BytesLess(a, b) ==
    IF b = <<>> THEN FALSE
    ELSE IF a = <<>> THEN TRUE
    ELSE IF Head(a) # Head(b) THEN Head(a) < Head(b)
    ELSE BytesLess(Tail(a), Tail(b))

StrLess(a, b) == BytesLess(Utf8[a], Utf8[b])

\* An error message is the sequence of its parts: a part that is in
\* ErrorCodes stands for that code between brackets, any other part is text.
\* extract_error_code: the first bracketed code, else the fallback
RECURSIVE ExtractErrorCode(_, _)
ExtractErrorCode(msg, fallback) ==
    IF msg = <<>> THEN fallback
    ELSE IF Head(msg) \in ErrorCodes THEN Head(msg)
    ELSE ExtractErrorCode(Tail(msg), fallback)

\* the fallback code process_file passes for every operation
Fallback(o) ==
    CASE o = "ebur128" -> "E_EBUR128"
      [] o = "stats"   -> "E_STATS"
      [] o = "rms16k"  -> "E_RMS16K"
      [] o = "rms18k"  -> "E_RMS18K"
      [] o = "rms20k"  -> "E_RMS20K"
      [] o = "probe"   -> "E_FFPROBE"

\* the parse error of every operation
ParseCode(o) ==
    CASE o = "ebur128" -> "E_PARSE_EBUR128"
      [] o = "stats"   -> "E_PARSE_STATS"
      [] o \in {"rms16k", "rms18k", "rms20k"} -> "E_PARSE_HIGHPASS"
      [] o = "probe"   -> "E_PARSE_FFPROBE"

\* the failed-exit error: run_command_and_get_stderr, get_probe_data
ExitCode(o) == IF o = "probe" THEN "E_FFPROBE_FAILED" ELSE "E_EXEC_FAILED"

\* Error messages an operation can return: a timeout of run_command, a failed
\* exit with a preview of stderr, the operation's parse error, and the I/O
\* error of a reader thread, whose text has no code.
ErrorMessages(o) ==
    { <<"E_TIMEOUT", "text">>,
      <<ExitCode(o), "text", "E_TIMEOUT">>,
      <<ParseCode(o), "text">>,
      <<"text">> }

\* ProbeData::default()
ProbeDefault ==
    [sample_rate_hz |-> None, bitrate_kbps |-> None, channels |-> None,
     codec_name |-> None, container_format |-> None, duration_seconds |-> None]

\* Values an operation can return with Ok.  get_ebur128_stats returns Ok only
\* with lra and integrated loudness present; AudioStats fields that do not
\* parse are None; get_probe_data returns the default without ffprobe.
OkValues(o) ==
    CASE o = "ebur128" ->
            {[lra |-> Some(v), integrated_loudness_lufs |-> Some(v + 10),
              true_peak_dbtp |-> tp] :
                <<v, tp>> \in {<<v, tp>> \in (1..MaxValue) \X {None, Some(20)} :
                                  TRUE}}
      [] o = "stats" ->
            {[peak_db |-> pk, rms_db |-> Some(v + 30)] :
                <<v, pk>> \in {<<v, pk>> \in (1..MaxValue) \X {None, Some(40)} :
                                  TRUE}}
      [] o \in {"rms16k", "rms18k", "rms20k"} -> {v + 50 : v \in 1..MaxValue}
      [] o = "probe" ->
            {ProbeDefault} \cup
            {[sample_rate_hz |-> Some(44100), bitrate_kbps |-> Some(320),
              channels |-> Some(2), codec_name |-> Some("flac"),
              container_format |-> Some("flac"),
              duration_seconds |-> Some(v + 60)] : v \in 1..MaxValue}

\* Result<T>
OpOk(v) == [ok |-> TRUE, val |-> v, msg |-> <<>>]
OpErr(m) == [ok |-> FALSE, val |-> <<>>, msg |-> m]
OpNone == [ok |-> FALSE, val |-> <<>>, msg |-> <<>>]

OpResults(o) == {OpOk(v) : v \in OkValues(o)} \cup {OpErr(m) : m \in ErrorMessages(o)}

InitProcessFile ==
    /\ pf_pc = "start"
    /\ file_size = 0
    /\ opState = [o \in Ops |-> "pending"]
    /\ opRes = [o \in Ops |-> OpNone]
    /\ metrics = <<>>

\* let file_size_bytes = path.metadata()?.len();
ReadMetadata ==
    /\ pf_pc = "start"
    /\ \/ /\ \E size \in 1..MaxValue : file_size' = size
          /\ pf_pc' = "fanout"
       \/ /\ pf_pc' = "failed"
          /\ UNCHANGED file_size
    /\ UNCHANGED <<opState, opRes, metrics, notProcessFile>>

\* An operation starts.  The five closures handed to the nested rayon::join
\* may each be taken by a worker as soon as the join is entered; the call of
\* get_probe_data follows the join, which returns when all five are done.
StartOp(o) ==
    /\ pf_pc = "fanout"
    /\ opState[o] = "pending"
    /\ o = "probe" => \A f \in FfmpegOps : opState[f] = "done"
    /\ opState' = [opState EXCEPT ![o] = "running"]
    /\ UNCHANGED <<pf_pc, file_size, opRes, metrics, notProcessFile>>

\* An operation returns, with Ok or with an error.
FinishOp(o) ==
    /\ pf_pc = "fanout"
    /\ opState[o] = "running"
    /\ \E r \in OpResults(o) : opRes' = [opRes EXCEPT ![o] = r]
    /\ opState' = [opState EXCEPT ![o] = "done"]
    /\ UNCHANGED <<pf_pc, file_size, metrics, notProcessFile>>

\* the order in which process_file looks at the six results
OpOrder == <<"ebur128", "stats", "rms16k", "rms18k", "rms20k", "probe">>

\* the error_codes.push calls, in order
RECURSIVE PushedCodes(_, _)
PushedCodes(res, order) ==
    IF order = <<>> THEN <<>>
    ELSE LET o == Head(order) IN
         (IF res[o].ok THEN <<>>
          ELSE <<ExtractErrorCode(res[o].msg, Fallback(o))>>)
         \o PushedCodes(res, Tail(order))

\* insert x into the ascending sequence s, after its equals
RECURSIVE Insert(_, _)
Insert(s, x) ==
    IF s = <<>> THEN <<x>>
    ELSE IF StrLess(x, Head(s)) THEN <<x>> \o s
    ELSE <<Head(s)>> \o Insert(Tail(s), x)

\* Vec::sort
RECURSIVE Sort(_)
Sort(s) == IF s = <<>> THEN <<>> ELSE Insert(Sort(SubSeq(s, 1, Len(s) - 1)), s[Len(s)])

\* Vec::dedup: drops an element equal to the one before it
RECURSIVE Dedup(_)
Dedup(s) ==
    IF Len(s) <= 1 THEN s
    ELSE IF s[1] = s[2] THEN Dedup(Tail(s))
    ELSE <<s[1]>> \o Dedup(Tail(s))

\* CollectErrorCodes without error_codes.dedup()
CollectErrorCodes_NoDedup(res) == Sort(PushedCodes(res, OpOrder))

\* error_codes after sort() and dedup()
CollectErrorCodes(res) == Dedup(Sort(PushedCodes(res, OpOrder)))

\* BuildMetrics with the whole record left empty when any operation failed
BuildMetrics_AllOrNothing(size, res) ==
    LET all_ok == \A o \in Ops : res[o].ok
        probe == IF all_ok THEN res["probe"].val ELSE ProbeDefault
        hp(o) == IF all_ok THEN Some(res[o].val) ELSE None
    IN [file_size_bytes |-> size,
        lra |-> IF all_ok THEN res["ebur128"].val.lra ELSE None,
        integrated_loudness_lufs |->
            IF all_ok THEN res["ebur128"].val.integrated_loudness_lufs ELSE None,
        true_peak_dbtp |->
            IF all_ok THEN res["ebur128"].val.true_peak_dbtp ELSE None,
        peak_amplitude_db |-> IF all_ok THEN res["stats"].val.peak_db ELSE None,
        overall_rms_db |-> IF all_ok THEN res["stats"].val.rms_db ELSE None,
        rms_db_above_16k |-> hp("rms16k"),
        rms_db_above_18k |-> hp("rms18k"),
        rms_db_above_20k |-> hp("rms20k"),
        sample_rate_hz |-> probe.sample_rate_hz,
        bitrate_kbps |-> probe.bitrate_kbps,
        channels |-> probe.channels,
        codec_name |-> probe.codec_name,
        container_format |-> probe.container_format,
        duration_seconds |-> probe.duration_seconds,
        cache_hit |-> FALSE,
        content_sha256 |-> None,
        error_codes |-> CollectErrorCodes(res)]

\* the FileMetrics process_file builds from the six results
BuildMetrics(size, res) ==
    LET ebur == res["ebur128"]
        stats == res["stats"]
        probe == IF res["probe"].ok THEN res["probe"].val ELSE ProbeDefault
        hp(o) == IF res[o].ok THEN Some(res[o].val) ELSE None
    IN [file_size_bytes |-> size,
        lra |-> IF ebur.ok THEN ebur.val.lra ELSE None,
        integrated_loudness_lufs |->
            IF ebur.ok THEN ebur.val.integrated_loudness_lufs ELSE None,
        true_peak_dbtp |-> IF ebur.ok THEN ebur.val.true_peak_dbtp ELSE None,
        peak_amplitude_db |-> IF stats.ok THEN stats.val.peak_db ELSE None,
        overall_rms_db |-> IF stats.ok THEN stats.val.rms_db ELSE None,
        rms_db_above_16k |-> hp("rms16k"),
        rms_db_above_18k |-> hp("rms18k"),
        rms_db_above_20k |-> hp("rms20k"),
        sample_rate_hz |-> probe.sample_rate_hz,
        bitrate_kbps |-> probe.bitrate_kbps,
        channels |-> probe.channels,
        codec_name |-> probe.codec_name,
        container_format |-> probe.container_format,
        duration_seconds |-> probe.duration_seconds,
        cache_hit |-> FALSE,
        content_sha256 |-> None,
        error_codes |-> CollectErrorCodes(res)]

\* the six results are in: build the record and return Ok(FileMetrics)
MergeResults ==
    /\ pf_pc = "fanout"
    /\ \A o \in Ops : opState[o] = "done"
    /\ metrics' = BuildMetrics(file_size, opRes)
    /\ pf_pc' = "done"
    /\ UNCHANGED <<file_size, opState, opRes, notProcessFile>>

NextProcessFile ==
    \/ ReadMetadata
    \/ \E o \in Ops : StartOp(o)
    \/ \E o \in Ops : FinishOp(o)
    \/ MergeResults

InitExtract ==
    /\ InitProcessFile
    /\ IdleLimiter
    /\ IdleParse
    /\ IdleCache
    /\ IdleRun
    /\ IdleScore
    /\ IdleFn

SpecProcessFile == InitExtract /\ [][NextProcessFile]_vars

-----------------------------------------------------------------------------
(***************************************************************************)
(* Properties of process_file                                              *)
(***************************************************************************)

Range(s) == {s[i] : i \in 1..Len(s)}

\* the fields of the record m that operation o fills
OwnFields(m, o) ==
    CASE o = "ebur128" -> <<m.lra, m.integrated_loudness_lufs, m.true_peak_dbtp>>
      [] o = "stats"   -> <<m.peak_amplitude_db, m.overall_rms_db>>
      [] o = "rms16k"  -> <<m.rms_db_above_16k>>
      [] o = "rms18k"  -> <<m.rms_db_above_18k>>
      [] o = "rms20k"  -> <<m.rms_db_above_20k>>
      [] o = "probe"   -> <<m.sample_rate_hz, m.bitrate_kbps, m.channels,
                            m.codec_name, m.container_format,
                            m.duration_seconds>>

\* the same fields as the value v that operation o returned holds them
ReturnedFields(o, v) ==
    CASE o = "ebur128" -> <<v.lra, v.integrated_loudness_lufs, v.true_peak_dbtp>>
      [] o = "stats"   -> <<v.peak_db, v.rms_db>>
      [] o \in {"rms16k", "rms18k", "rms20k"} -> <<Some(v)>>
      [] o = "probe"   -> <<v.sample_rate_hz, v.bitrate_kbps, v.channels,
                            v.codec_name, v.container_format,
                            v.duration_seconds>>

\* the code a failed operation stands for: the one its message starts with,
\* the operation's fallback when the message has none
CodeOfFailure(o) ==
    IF \E i \in 1..Len(opRes[o].msg) : opRes[o].msg[i] \in ErrorCodes
    THEN opRes[o].msg[CHOOSE i \in 1..Len(opRes[o].msg) :
                         /\ opRes[o].msg[i] \in ErrorCodes
                         /\ \A j \in 1..(i - 1) : opRes[o].msg[j] \notin ErrorCodes]
    ELSE Fallback(o)

Failed == {o \in Ops : opState[o] = "done" /\ ~opRes[o].ok}

\* C6: once the size is read process_file returns a record whatever
\* operations fail: a failed operation leaves exactly its own fields absent
\* and its code in error_codes, a successful one has its fields set to the
\* values it returned.
C6_FailureIsolation ==
    /\ pf_pc = "failed" => \A o \in Ops : opState[o] = "pending"
    /\ pf_pc = "done" =>
          /\ metrics.file_size_bytes = file_size
          /\ \A o \in Ops :
                IF opRes[o].ok
                THEN OwnFields(metrics, o) = ReturnedFields(o, opRes[o].val)
                ELSE /\ \A i \in 1..Len(OwnFields(metrics, o)) :
                           OwnFields(metrics, o)[i] = None
                     /\ CodeOfFailure(o) \in Range(metrics.error_codes)

\* C6 witness: only the 20 kHz measurement failed; its field is absent, one
\* code is attached and the fields of the other five are there
C6_Witness ==
    /\ pf_pc = "done"
    /\ Failed = {"rms20k"}
    /\ metrics.rms_db_above_20k = None
    /\ Len(metrics.error_codes) = 1
    /\ metrics.lra # None
    /\ metrics.peak_amplitude_db # None
    /\ metrics.rms_db_above_16k # None
    /\ metrics.rms_db_above_18k # None
    /\ metrics.sample_rate_hz # None

\* C7: all six operations run concurrently and independently: an operation
\* that has not started can start whatever the state of the other five.
C7_AllSixStartIndependently ==
    pf_pc = "fanout" =>
        \A o \in Ops : opState[o] = "pending" => ENABLED StartOp(o)

\* C8: error_codes is strictly ascending and holds exactly the codes of the
\* operations that failed, each once; it is empty iff all six succeeded.
C8_ErrorCodesSortedSet ==
    pf_pc = "done" =>
        LET ec == metrics.error_codes IN
        /\ \A i \in 1..(Len(ec) - 1) : StrLess(ec[i], ec[i + 1])
        /\ Range(ec) = {CodeOfFailure(o) : o \in Failed}
        /\ (ec = <<>>) <=> (\A o \in Ops : opRes[o].ok)

\* C8 witness: the three high-pass measurements timed out and the probe
\* failed with a message without a code: E_TIMEOUT is there once, after the
\* probe's fallback code, which was pushed last
C8_Witness ==
    /\ pf_pc = "done"
    /\ \A o \in {"rms16k", "rms18k", "rms20k"} :
          opRes[o] = OpErr(<<"E_TIMEOUT", "text">>)
    /\ opRes["probe"] = OpErr(<<"text">>)
    /\ opRes["ebur128"].ok
    /\ opRes["stats"].ok
    /\ metrics.error_codes = <<"E_FFPROBE", "E_TIMEOUT">>

-----------------------------------------------------------------------------
(***************************************************************************)
(* Part 3.  Numeric tokens: the regex table, parse_float_token and the     *)
(* operations that read the reports.  A text is a sequence of characters.  *)
(***************************************************************************)

\* longest value text tried
MaxTokenLen == 4

Digits == {"0", "1", "2", "3", "4", "5", "6", "7", "8", "9"}

DigitValue ==
    [c \in Digits |->
        CASE c = "0" -> 0 [] c = "1" -> 1 [] c = "2" -> 2 [] c = "3" -> 3
          [] c = "4" -> 4 [] c = "5" -> 5 [] c = "6" -> 6 [] c = "7" -> 7
          [] c = "8" -> 8 [] c = "9" -> 9]

\* the class [0-9.+-] of the EBUR128_* patterns
EburClass == Digits \cup {".", "+", "-"}

\* the class [-\d.] of OVERALL_STATS_REGEX and HIGHPASS_ASTATS_REGEX
StatsClass == Digits \cup {"-", "."}

\* the characters the value texts are made of
Alphabet == {"1", ".", "+", "-", "i", "n", "f", "a"}

RECURSIVE TextsUpTo(_)
TextsUpTo(n) ==
    IF n = 0 THEN {<<>>}
    ELSE LET shorter == TextsUpTo(n - 1) IN
         shorter \cup {Append(t, c) : t \in shorter, c \in Alphabet}

Texts == TextsUpTo(MaxTokenLen)

\* the longest prefix of text made of characters of class: what a greedy
\* ([class]+) takes
RECURSIVE LongestPrefix(_, _)
LongestPrefix(text, class) ==
    IF text = <<>> \/ Head(text) \notin class THEN <<>>
    ELSE <<Head(text)>> \o LongestPrefix(Tail(text), class)

\* `LABEL:\s*([class]+)` with anything after it: EBUR128_LRA_REGEX,
\* EBUR128_STREAM_TPK_REGEX, OVERALL_STATS_REGEX, HIGHPASS_ASTATS_REGEX
PrefixCapture(text, class) ==
    LET cap == LongestPrefix(text, class) IN
    IF cap = <<>> THEN None ELSE Some(cap)

\* `^\s*LABEL:\s*([class]+)\s*UNIT\s*$`: the EBUR128_SUMMARY_* patterns.  The
\* unit has to follow the capture, so the whole value text is in the class.
AnchoredCapture(text, class) ==
    LET cap == LongestPrefix(text, class) IN
    IF cap # <<>> /\ cap = text THEN Some(cap) ELSE None

\* f64 values
Finite(mant, scale) == [kind |-> "finite", mant |-> mant, scale |-> scale]
PosInf == [kind |-> "inf", mant |-> 0, scale |-> 0]
NegInf == [kind |-> "-inf", mant |-> 0, scale |-> 0]
NaN == [kind |-> "nan", mant |-> 0, scale |-> 0]

Negate(x) ==
    CASE x.kind = "finite" -> Finite(0 - x.mant, x.scale)
      [] x.kind = "inf" -> NegInf
      [] x.kind = "-inf" -> PosInf
      [] x.kind = "nan" -> NaN

\* the digits of a decimal without sign, as an integer
RECURSIVE DigitsValue(_)
DigitsValue(text) ==
    IF text = <<>> THEN 0
    ELSE 10 * DigitsValue(SubSeq(text, 1, Len(text) - 1))
         + DigitValue[text[Len(text)]]

\* an unsigned decimal: digits, at most one point, at least one digit
ParseUnsigned(text) ==
    LET points == {i \in 1..Len(text) : text[i] = "."}
        digits == {i \in 1..Len(text) : text[i] \in Digits}
    IN IF /\ digits # {}
          /\ Cardinality(points) <= 1
          /\ points \cup digits = 1..Len(text)
       THEN LET shown == [i \in 1..Cardinality(digits) |->
                            text[CHOOSE j \in digits :
                                    Cardinality({k \in digits : k < j}) = i - 1]]
                scale == IF points = {} THEN 0
                         ELSE Len(text) - (CHOOSE i \in points : TRUE)
            IN Some(Finite(DigitsValue(shown), scale))
       ELSE None

\* str::parse::<f64>: an optional sign, then inf, infinity, nan (whatever the
\* case) or a decimal number
ParseF64(text) ==
    LET signed == text # <<>> /\ Head(text) \in {"+", "-"}
        body == IF signed THEN Tail(text) ELSE text
        magnitude ==
            IF body = <<"i", "n", "f">> THEN Some(PosInf)
            ELSE IF body = <<"n", "a", "n">> THEN Some(NaN)
            ELSE ParseUnsigned(body)
    IN IF magnitude = None THEN None
       ELSE IF signed /\ Head(text) = "-" THEN Some(Negate(magnitude[1]))
       ELSE magnitude

\* parse_float_token
ParseFloatToken(token) ==
    IF token = <<"i", "n", "f">> \/ token = <<"+", "i", "n", "f">>
        THEN Some(PosInf)
    ELSE IF token = <<"-", "i", "n", "f">> THEN Some(NegInf)
    ELSE IF token = <<"n", "a", "n">> THEN None
    ELSE ParseF64(token)

\* Option::and_then(parse_float_token) on a capture
AndThenParseFloatToken(cap) == IF cap = None THEN None ELSE ParseFloatToken(cap[1])

\* captures_iter(..).filter_map(parse_float_token).last() over the value
\* texts the pattern finds, in the order of the report
RECURSIVE LastParsed(_)
LastParsed(texts) ==
    IF texts = <<>> THEN None
    ELSE LET last == AndThenParseFloatToken(
                         PrefixCapture(texts[Len(texts)], EburClass))
         IN IF last # None THEN last
            ELSE LastParsed(SubSeq(texts, 1, Len(texts) - 1))

\* Result of an operation that reads a report
ParsedOk(v) == [failed |-> FALSE, code |-> "", val |-> v]
ParsedErr(code) == [failed |-> TRUE, code |-> code, val |-> <<>>]

\* get_ebur128_stats reading the summary only
GetEbur128Stats_SummaryOnly(lra, i, tp, lra_stream, tpk_stream) ==
    LET lra_val == AndThenParseFloatToken(AnchoredCapture(lra, EburClass))
        i_val == AndThenParseFloatToken(AnchoredCapture(i, EburClass))
        tp_val == AndThenParseFloatToken(AnchoredCapture(tp, EburClass))
    IN IF lra_val = None \/ i_val = None
       THEN ParsedErr("E_PARSE_EBUR128")
       ELSE ParsedOk([lra |-> lra_val, integrated_loudness_lufs |-> i_val,
                      true_peak_dbtp |-> tp_val])

\* get_ebur128_stats on a report whose summary prints the value texts lra, i
\* and tp, after streaming lines that print lra_stream and tpk_stream.
\* `LRA:\s*(..)` also finds the summary's own LRA line, `TPK:` does not find
\* the summary's Peak line.
GetEbur128Stats(lra, i, tp, lra_stream, tpk_stream) ==
    LET lra_sum == AndThenParseFloatToken(AnchoredCapture(lra, EburClass))
        lra_val == IF lra_sum # None THEN lra_sum
                   ELSE LastParsed(Append(lra_stream, lra))
        i_val == AndThenParseFloatToken(AnchoredCapture(i, EburClass))
        tp_sum == AndThenParseFloatToken(AnchoredCapture(tp, EburClass))
        tp_val == IF tp_sum # None THEN tp_sum ELSE LastParsed(tpk_stream)
    IN IF lra_val = None \/ i_val = None
       THEN ParsedErr("E_PARSE_EBUR128")
       ELSE ParsedOk([lra |-> lra_val, integrated_loudness_lufs |-> i_val,
                      true_peak_dbtp |-> tp_val])

\* get_stats_ffmpeg on a report whose Overall block prints peak and rms
GetStatsFfmpeg(peak, rms) ==
    LET peak_cap == PrefixCapture(peak, StatsClass)
        rms_cap == PrefixCapture(rms, StatsClass)
    IN IF peak_cap = None \/ rms_cap = None
       THEN ParsedErr("E_PARSE_STATS")
       ELSE ParsedOk([peak_db |-> ParseF64(peak_cap[1]),
                      rms_db |-> ParseF64(rms_cap[1])])

\* get_highpass_rms_ffmpeg on a report whose Overall block prints rms
GetHighpassRmsFfmpeg(rms) ==
    LET cap == PrefixCapture(rms, StatsClass)
        val == IF cap = None THEN None ELSE ParseF64(cap[1])
    IN IF val = None THEN ParsedErr("E_PARSE_HIGHPASS") ELSE ParsedOk(val[1])

\* the fields the Metric Extractor parses from the reports
NumericFields ==
    {"integrated_loudness_lufs", "lra", "true_peak_dbtp", "peak_amplitude_db",
     "overall_rms_db", "rms_db_above_16k", "rms_db_above_18k",
     "rms_db_above_20k"}

\* a well-formed value text, printed for the fields that are not under test
PlainText == <<"1">>

\* the operation that fills field, run on a report that prints text for that
\* field (and stream on its streaming lines) and PlainText elsewhere:
\* whether the operation failed, with what code, and the field's value
ExtractField(field, text, stream) ==
    CASE field \in {"integrated_loudness_lufs", "lra", "true_peak_dbtp"} ->
            LET r == GetEbur128Stats(
                        IF field = "lra" THEN text ELSE PlainText,
                        IF field = "integrated_loudness_lufs" THEN text
                        ELSE PlainText,
                        IF field = "true_peak_dbtp" THEN text ELSE PlainText,
                        IF field = "lra" THEN stream ELSE <<>>,
                        IF field = "true_peak_dbtp" THEN stream ELSE <<>>)
            IN IF r.failed THEN [r EXCEPT !.val = None]
               ELSE [r EXCEPT !.val = r.val[field]]
      [] field \in {"peak_amplitude_db", "overall_rms_db"} ->
            LET r == GetStatsFfmpeg(
                        IF field = "peak_amplitude_db" THEN text ELSE PlainText,
                        IF field = "overall_rms_db" THEN text ELSE PlainText)
            IN IF r.failed THEN [r EXCEPT !.val = None]
               ELSE [r EXCEPT !.val = IF field = "peak_amplitude_db"
                                      THEN r.val.peak_db ELSE r.val.rms_db]
      [] OTHER ->
            LET r == GetHighpassRmsFfmpeg(text)
            IN IF r.failed THEN [r EXCEPT !.val = None]
               ELSE [r EXCEPT !.val = Some(r.val)]

\* streaming lines exist only for loudness range and true peak
StreamChoices(field) ==
    IF field \in {"lra", "true_peak_dbtp"} THEN {<<>>, <<PlainText>>} ELSE {<<>>}

InitParse ==
    /\ p_pc = "input"
    /\ p_field \in NumericFields
    /\ p_text \in Texts
    /\ p_stream \in StreamChoices(p_field)
    /\ p_res = <<>>

\* the operation reads the report
ParseReport ==
    /\ p_pc = "input"
    /\ p_res' = ExtractField(p_field, p_text, p_stream)
    /\ p_pc' = "parsed"
    /\ UNCHANGED <<p_field, p_text, p_stream, notParse>>

NextParse == ParseReport

InitNumeric ==
    /\ InitParse
    /\ IdleLimiter
    /\ IdleProcessFile
    /\ IdleCache
    /\ IdleRun
    /\ IdleScore
    /\ IdleFn

SpecParse == InitNumeric /\ [][NextParse]_vars

\* C9: every numeric value the Metric Extractor parses accepts inf, +inf and
\* -inf, so that the field holds that infinity and the operation does not
\* fail, and takes nan for an absent value, not for a failure.
C9_InfinityAndNanTokens ==
    p_pc = "parsed" =>
        /\ p_text \in {<<"i", "n", "f">>, <<"+", "i", "n", "f">>}
              => ~p_res.failed /\ p_res.val = Some(PosInf)
        /\ p_text = <<"-", "i", "n", "f">>
              => ~p_res.failed /\ p_res.val = Some(NegInf)
        /\ p_text = <<"n", "a", "n">>
              => ~p_res.failed /\ p_res.val = None

-----------------------------------------------------------------------------
(***************************************************************************)
(* Part 4.  AnalysisCache: lookup and upsert.                              *)
(***************************************************************************)

\* largest modification time tried
MaxMtime == 1

\* metadata.len() values
FileSizes == {0, 4096}

\* processing_time_ms values a record is stored with
Durations == {0, 250}

\* content_sha256 values
Hashes == {"h1", "h2"}

\* FileFingerprint
Fingerprints ==
    [mtime_unix_secs : 0..MaxMtime, file_size_bytes : FileSizes,
     content_sha256 : Hashes]

\* paths handed to the cache: two spellings of one file and a file that
\* cannot be canonicalized
FilePaths == {"a.flac", "./a.flac", "gone.flac"}

\* Path::canonicalize
Canonicalize(path) ==
    IF path \in {"a.flac", "./a.flac"} THEN Some("/music/a.flac") ELSE None

\* normalize_cache_key
NormalizeCacheKey(path) ==
    LET canonical == Canonicalize(path) IN
    IF canonical = None THEN path ELSE canonical[1]

\* the fields of FileMetrics the cache is concerned with
CacheMetrics ==
    [cache_hit : BOOLEAN, processing_time_ms : Durations,
     error_codes : {<<>>, <<"E_TIMEOUT">>}]

\* CacheEntry
CacheEntry(fingerprint, m) == [fingerprint |-> fingerprint, metrics |-> m]

\* AnalysisCache::default
InitCache ==
    /\ cache_entries = <<>>
    /\ looked = None
    /\ processed = None
    /\ upserted = None

\* a lookup that compares modification time and size only
Lookup_NoHash(entries, file_path, fingerprint) ==
    LET key == NormalizeCacheKey(file_path) IN
    IF key \notin DOMAIN entries THEN None
    ELSE LET entry == entries[key] IN
         IF /\ entry.fingerprint.mtime_unix_secs = fingerprint.mtime_unix_secs
            /\ entry.fingerprint.file_size_bytes = fingerprint.file_size_bytes
         THEN Some([entry.metrics EXCEPT !.cache_hit = TRUE])
         ELSE None

\* AnalysisCache::lookup
Lookup(entries, file_path, fingerprint) ==
    LET key == NormalizeCacheKey(file_path) IN
    IF key \notin DOMAIN entries THEN None
    ELSE LET entry == entries[key] IN
         IF /\ entry.fingerprint.mtime_unix_secs = fingerprint.mtime_unix_secs
            /\ entry.fingerprint.file_size_bytes = fingerprint.file_size_bytes
            /\ entry.fingerprint.content_sha256 = fingerprint.content_sha256
         THEN Some([entry.metrics EXCEPT !.cache_hit = TRUE])
         ELSE None

\* an insert that keeps the entry a key already has
HashMapInsert_KeepExisting(entries, key, entry) ==
    [k \in DOMAIN entries \cup {key} |->
        IF k \in DOMAIN entries THEN entries[k] ELSE entry]

\* HashMap::insert
HashMapInsert(entries, key, entry) ==
    [k \in DOMAIN entries \cup {key} |-> IF k = key THEN entry ELSE entries[k]]

\* process_one_file without the reset of the duration
CachedRecord_KeepDuration(m, fingerprint) ==
    [metrics |-> m, fingerprint |-> fingerprint]

\* the ProcessedRecord process_one_file builds from what lookup returned
CachedRecord(m, fingerprint) ==
    [metrics |-> [m EXCEPT !.processing_time_ms = 0],
     fingerprint |-> fingerprint]

\* the caller looks a file up and holds what lookup returned
DoLookup(file_path, fingerprint) ==
    /\ looked = None
    /\ upserted = None
    /\ looked' = Some([file_path |-> file_path, fingerprint |-> fingerprint,
                       ret |-> Lookup(cache_entries, file_path, fingerprint)])
    /\ UNCHANGED <<cache_entries, processed, upserted, notCache>>

\* process_one_file on a hit: the record it returns
ReturnCached ==
    /\ looked # None
    /\ looked[1].ret # None
    /\ processed = None
    /\ processed' = Some(CachedRecord(looked[1].ret[1], looked[1].fingerprint))
    /\ UNCHANGED <<cache_entries, looked, upserted, notCache>>

\* the caller is done with what lookup returned
DropLooked ==
    /\ looked # None
    /\ looked[1].ret # None => processed # None
    /\ looked' = None
    /\ processed' = None
    /\ UNCHANGED <<cache_entries, upserted, notCache>>

\* AnalysisCache::upsert
Upsert(file_path, fingerprint, m) ==
    /\ looked = None
    /\ upserted = None
    /\ cache_entries' = HashMapInsert(cache_entries,
                                      NormalizeCacheKey(file_path),
                                      CacheEntry(fingerprint, m))
    /\ upserted' =
          Some([file_path |-> file_path, fingerprint |-> fingerprint,
                metrics |-> m,
                replaced |->
                    IF NormalizeCacheKey(file_path) \in DOMAIN cache_entries
                    THEN Some(cache_entries[NormalizeCacheKey(file_path)]
                                 .fingerprint)
                    ELSE None,
                others |->
                    [k \in DOMAIN cache_entries
                            \ {NormalizeCacheKey(file_path)} |->
                        cache_entries[k]]])
    /\ UNCHANGED <<looked, processed, notCache>>

\* upsert has returned to its caller
UpsertReturns ==
    /\ upserted # None
    /\ upserted' = None
    /\ UNCHANGED <<cache_entries, looked, processed, notCache>>

NextCache ==
    \/ \E file_path \in FilePaths, fingerprint \in Fingerprints :
          DoLookup(file_path, fingerprint)
    \/ ReturnCached
    \/ DropLooked
    \/ \E file_path \in FilePaths, fingerprint \in Fingerprints,
          m \in CacheMetrics :
          Upsert(file_path, fingerprint, m)
    \/ UpsertReturns

InitEmptyCache ==
    /\ InitCache
    /\ IdleLimiter
    /\ IdleProcessFile
    /\ IdleParse
    /\ IdleRun
    /\ IdleScore
    /\ IdleFn

SpecCache == InitEmptyCache /\ [][NextCache]_vars

\* the components in which two fingerprints differ
Differing(f1, f2) ==
    {c \in {"mtime_unix_secs", "file_size_bytes", "content_sha256"} :
        f1[c] # f2[c]}

\* C10: a lookup with fingerprint F2 is a hit iff the path has a stored entry
\* whose fingerprint F1 differs from F2 in no component; no entry for the
\* path, or a difference in any single component, is a miss.
C10_HitIffFingerprintEqual ==
    looked # None =>
        LET q == looked[1]
            key == NormalizeCacheKey(q.file_path)
            hit == q.ret # None
        IN /\ key \notin DOMAIN cache_entries => ~hit
           /\ key \in DOMAIN cache_entries =>
                (hit <=> Differing(cache_entries[key].fingerprint,
                                   q.fingerprint) = {})

\* a miss on another spelling of a stored path, whose stored fingerprint
\* differs from the query in the content hash alone
C10_Witness ==
    /\ looked # None
    /\ LET q == looked[1]
           key == NormalizeCacheKey(q.file_path)
       IN /\ q.ret = None
          /\ key \in DOMAIN cache_entries
          /\ q.file_path # key
          /\ Differing(cache_entries[key].fingerprint, q.fingerprint)
                = {"content_sha256"}

\* the fields of a metrics record other than the flag and the duration
OtherFields(m) == [m EXCEPT !.cache_hit = FALSE, !.processing_time_ms = 0]

\* the entry a lookup was answered from
StoredFor(q) == cache_entries[NormalizeCacheKey(q.file_path)]

\* C11 as stated: the record cache.lookup returns on a hit has the cache-hit
\* flag set and the duration 0, whatever was stored, and equals the stored
\* record in every other field.
C11_LookupReturnsZeroDuration ==
    (looked # None /\ looked[1].ret # None) =>
        LET m == looked[1].ret[1] IN
        /\ m.cache_hit = TRUE
        /\ m.processing_time_ms = 0
        /\ OtherFields(m) = OtherFields(StoredFor(looked[1]).metrics)

\* C11 amended: the record cache.lookup returns on a hit has the flag set and
\* every other field, the duration included, as stored; the record
\* process_one_file returns for that hit has the flag set, the duration 0 and
\* every other field as stored.
C11_HitRecordFlagAndDuration ==
    (looked # None /\ looked[1].ret # None) =>
        LET m == looked[1].ret[1]
            stored == StoredFor(looked[1]).metrics
        IN /\ m = [stored EXCEPT !.cache_hit = TRUE]
           /\ processed # None =>
                /\ processed[1].metrics.cache_hit = TRUE
                /\ processed[1].metrics.processing_time_ms = 0
                /\ OtherFields(processed[1].metrics) = OtherFields(stored)
                /\ processed[1].fingerprint = StoredFor(looked[1]).fingerprint

\* a hit on an entry stored with the flag unset, a duration and an error code
C11_Witness ==
    /\ looked # None
    /\ processed # None
    /\ StoredFor(looked[1]).metrics =
          [cache_hit |-> FALSE, processing_time_ms |-> 250,
           error_codes |-> <<"E_TIMEOUT">>]

\* C12: upsert(path, fp, m) replaces the entry of that path whatever was
\* there: in the cache it leaves, lookup(path, fp) is a hit answered from m
\* (m with the cache-hit flag set), lookup of that path with any other
\* fingerprint, the replaced entry's included, is a miss, and every other key
\* has the entry it had.
C12_UpsertReplaces ==
    upserted # None =>
        LET u == upserted[1]
            key == NormalizeCacheKey(u.file_path)
        IN /\ Lookup(cache_entries, u.file_path, u.fingerprint)
                 = Some([u.metrics EXCEPT !.cache_hit = TRUE])
           /\ \A fp \in Fingerprints \ {u.fingerprint} :
                 Lookup(cache_entries, u.file_path, fp) = None
           /\ (u.replaced # None /\ u.replaced[1] # u.fingerprint) =>
                 Lookup(cache_entries, u.file_path, u.replaced[1]) = None
           /\ DOMAIN cache_entries = DOMAIN u.others \cup {key}
           /\ \A k \in DOMAIN u.others : cache_entries[k] = u.others[k]

\* an upsert that replaced an entry with another fingerprint while another
\* path has an entry
C12_Witness ==
    /\ upserted # None
    /\ upserted[1].replaced # None
    /\ upserted[1].replaced[1] # upserted[1].fingerprint
    /\ DOMAIN cache_entries # {NormalizeCacheKey(upserted[1].file_path)}

-----------------------------------------------------------------------------
(***************************************************************************)
(* Part 5.  run_analysis: load of the cache, the parallel phase of         *)
(* process_one_file, the sequential merge, the save and the reports.       *)
(***************************************************************************)

CACHE_VERSION == 1

\* the version numbers a stored document may carry
Versions == {CACHE_VERSION - 1, CACHE_VERSION, CACHE_VERSION + 1}

\* the files the scan discovered, in the order of audio_files
AudioFiles == <<"a.flac", "gone.flac">>

RunFiles == {AudioFiles[i] : i \in 1..Len(AudioFiles)}

\* fingerprint_file of a discovered file, and the fingerprint it had before
\* its content last changed
CurrentFingerprint ==
    [mtime_unix_secs |-> MaxMtime, file_size_bytes |-> 4096,
     content_sha256 |-> "h1"]
StaleFingerprint == [CurrentFingerprint EXCEPT !.content_sha256 = "h2"]

\* FileMetrics as process_file builds it for path.  The names of the files
\* are valid UTF-8, so path.to_string_lossy() is the path and no two files
\* share a cache key.
FreshMetrics(path, codes) ==
    [file_path |-> path, cache_hit |-> FALSE, processing_time_ms |-> 250,
     error_codes |-> codes]

\* AnalysisCache
Cache(version, entries) == [version |-> version, entries |-> entries]

\* AnalysisCache::default
DefaultCache == Cache(CACHE_VERSION, <<>>)

\* the entries an earlier run may have left: for each file none, one with the
\* fingerprint the file has now, or one with the fingerprint it had before
StoredEntries ==
    UNION {{[k \in keys |->
               CacheEntry(fps[k],
                          FreshMetrics(CHOOSE f \in RunFiles :
                                          NormalizeCacheKey(f) = k, <<>>))] :
              fps \in [keys -> {CurrentFingerprint, StaleFingerprint}]} :
           keys \in SUBSET {NormalizeCacheKey(f) : f \in RunFiles}}

\* a stored document that lost its entries
Storage_NoEntries(kind, version, entries) ==
    [kind |-> kind, version |-> version, entries |-> <<>>]

\* what the storage holds at the cache path
Storage(kind, version, entries) ==
    [kind |-> kind, version |-> version, entries |-> entries]

StorageStates ==
    {Storage(kind, 0, <<>>) : kind \in {"absent", "unreadable", "corrupt"}}
    \cup {Storage("document", v, e) : v \in Versions, e \in StoredEntries}

\* Result<AnalysisCache>
LoadOk(cache) == [ok |-> TRUE, cache |-> cache]
LoadErr == [ok |-> FALSE, cache |-> <<>>]

\* a load that keeps the entries of a document of another version
Load_KeepOld(file) ==
    CASE file.kind = "absent" -> LoadOk(DefaultCache)
      [] file.kind \in {"unreadable", "corrupt"} -> LoadErr
      [] OTHER -> LoadOk(Cache(CACHE_VERSION, file.entries))

\* AnalysisCache::load
Load(file) ==
    CASE file.kind = "absent" -> LoadOk(DefaultCache)
      [] file.kind \in {"unreadable", "corrupt"} -> LoadErr
      [] OTHER -> IF file.version # CACHE_VERSION
                  THEN LoadOk(DefaultCache)
                  ELSE LoadOk(Cache(file.version, file.entries))

InitRun ==
    /\ run_pc = "start"
    /\ cache_enabled \in BOOLEAN
    /\ cache_file \in StorageStates
    /\ cache_data = <<>>
    /\ cache_snapshot = <<>>
    /\ file_pc = [f \in RunFiles |-> "todo"]
    /\ file_rec = [f \in RunFiles |-> None]
    /\ processed_records = <<>>
    /\ results = <<>>
    /\ loads = 0
    /\ saves = 0
    /\ first_run = None

\* run_analysis loads the cache, or takes an empty one when caching is off,
\* and clones it; an error of load ends the run
LoadCache ==
    /\ run_pc = "start"
    /\ IF cache_enabled
       THEN /\ loads' = loads + 1
            /\ IF Load(cache_file).ok
               THEN /\ cache_data' = Load(cache_file).cache
                    /\ cache_snapshot' = Load(cache_file).cache
                    /\ run_pc' = "parallel"
               ELSE /\ run_pc' = "aborted"
                    /\ UNCHANGED <<cache_data, cache_snapshot>>
       ELSE /\ cache_data' = DefaultCache
            /\ cache_snapshot' = DefaultCache
            /\ run_pc' = "parallel"
            /\ UNCHANGED loads
    /\ UNCHANGED <<cache_enabled, cache_file, file_pc, file_rec,
                   processed_records, results, saves, notRun>>

\* a worker takes a file: fingerprint_file succeeds or fails
StartFile(f, fingerprint_ok) ==
    /\ run_pc = "parallel"
    /\ file_pc[f] = "todo"
    /\ file_pc' = [file_pc EXCEPT
                     ![f] = IF fingerprint_ok THEN "fingerprinted" ELSE "failed"]
    /\ UNCHANGED <<run_pc, cache_enabled, cache_file, cache_data,
                   cache_snapshot, file_rec, processed_records, results,
                   loads, saves, notRun>>

\* process_one_file consults the snapshot: a hit is returned, a miss goes on
\* to process_file
LookupFile(f) ==
    /\ run_pc = "parallel"
    /\ file_pc[f] = "fingerprinted"
    /\ LET hit == IF cache_enabled
                  THEN Lookup(cache_snapshot.entries, f, CurrentFingerprint)
                  ELSE None
       IN IF hit # None
          THEN /\ file_rec' = [file_rec EXCEPT
                    ![f] = Some(CachedRecord(hit[1], CurrentFingerprint))]
               /\ file_pc' = [file_pc EXCEPT ![f] = "done"]
          ELSE /\ file_pc' = [file_pc EXCEPT ![f] = "extracting"]
               /\ UNCHANGED file_rec
    /\ UNCHANGED <<run_pc, cache_enabled, cache_file, cache_data,
                   cache_snapshot, processed_records, results, loads, saves,
                   notRun>>

\* process_file returns: metrics, with or without error codes, or an error
FinishFile(f, ok, codes) ==
    /\ run_pc = "parallel"
    /\ file_pc[f] = "extracting"
    /\ IF ok
       THEN /\ file_rec' = [file_rec EXCEPT
                 ![f] = Some([metrics |-> FreshMetrics(f, codes),
                              fingerprint |-> CurrentFingerprint])]
            /\ file_pc' = [file_pc EXCEPT ![f] = "done"]
       ELSE /\ file_pc' = [file_pc EXCEPT ![f] = "failed"]
            /\ UNCHANGED file_rec
    /\ UNCHANGED <<run_pc, cache_enabled, cache_file, cache_data,
                   cache_snapshot, processed_records, results, loads, saves,
                   notRun>>

\* a collect into Result<Vec<_>>: one failed file leaves no record at all
Collected_AllOrNothing(files, rec) ==
    IF \E i \in 1..Len(files) : rec[files[i]] = None THEN <<>>
    ELSE [i \in 1..Len(files) |-> rec[files[i]][1]]

\* the records of the files that returned Ok, in the order of the files
RECURSIVE Collected(_, _)
Collected(files, rec) ==
    IF files = <<>> THEN <<>>
    ELSE (IF rec[Head(files)] = None THEN <<>> ELSE <<rec[Head(files)][1]>>)
         \o Collected(Tail(files), rec)

\* a collect that does not wait for the workers
CollectReady_Early == \E f \in RunFiles : file_pc[f] \in {"done", "failed"}

\* into_par_iter().filter_map(..).collect() returns when every file is done
CollectReady == \A f \in RunFiles : file_pc[f] \in {"done", "failed"}

Collect ==
    /\ run_pc = "parallel"
    /\ CollectReady
    /\ processed_records' = Collected(AudioFiles, file_rec)
    /\ run_pc' = "merge"
    /\ UNCHANGED <<cache_enabled, cache_file, cache_data, cache_snapshot,
                   file_pc, file_rec, results, loads, saves, notRun>>

\* one turn of the merge loop
MergeRecord ==
    /\ run_pc = "merge"
    /\ processed_records # <<>>
    /\ LET record == Head(processed_records) IN
       /\ cache_data' =
            IF cache_enabled
            THEN [cache_data EXCEPT !.entries =
                    HashMapInsert(cache_data.entries,
                                  NormalizeCacheKey(record.metrics.file_path),
                                  CacheEntry(record.fingerprint,
                                             record.metrics))]
            ELSE cache_data
       /\ results' = Append(results, record.metrics)
    /\ processed_records' = Tail(processed_records)
    /\ UNCHANGED <<run_pc, cache_enabled, cache_file, cache_snapshot, file_pc,
                   file_rec, loads, saves, notRun>>

\* after the loop the cache is saved when caching is on; an error of save
\* ends the run and leaves the stored document as it was
SaveCache(write_ok) ==
    /\ run_pc = "merge"
    /\ processed_records = <<>>
    /\ IF cache_enabled
       THEN /\ saves' = saves + 1
            /\ IF write_ok
               THEN /\ cache_file' = Storage("document", cache_data.version,
                                             cache_data.entries)
                    /\ run_pc' = "report"
               ELSE /\ run_pc' = "aborted"
                    /\ UNCHANGED cache_file
       ELSE /\ write_ok
            /\ run_pc' = "report"
            /\ UNCHANGED <<cache_file, saves>>
    /\ UNCHANGED <<cache_enabled, cache_data, cache_snapshot, file_pc,
                   file_rec, processed_records, results, loads, notRun>>

\* scoring and the reports; an error of a report writer ends the run
WriteReports(write_ok) ==
    /\ run_pc = "report"
    /\ run_pc' = IF write_ok THEN "done" ELSE "aborted"
    /\ UNCHANGED <<cache_enabled, cache_file, cache_data, cache_snapshot,
                   file_pc, file_rec, processed_records, results, loads,
                   saves, notRun>>

\* run_analysis is started again on the same folder after a run that
\* completed: the stored cache document is what that run left
RunAgain ==
    /\ run_pc = "done"
    /\ first_run = None
    /\ first_run' = Some(file_rec)
    /\ run_pc' = "start"
    /\ cache_data' = <<>>
    /\ cache_snapshot' = <<>>
    /\ file_pc' = [f \in RunFiles |-> "todo"]
    /\ file_rec' = [f \in RunFiles |-> None]
    /\ processed_records' = <<>>
    /\ results' = <<>>
    /\ loads' = 0
    /\ saves' = 0
    /\ UNCHANGED <<cache_enabled, cache_file, limVars, pfVars, parseVars,
                   cacheVars, scoreVars, fnVars>>

NextRun ==
    \/ LoadCache
    \/ \E f \in RunFiles, fingerprint_ok \in BOOLEAN :
          StartFile(f, fingerprint_ok)
    \/ \E f \in RunFiles : LookupFile(f)
    \/ \E f \in RunFiles, ok \in BOOLEAN,
          codes \in {<<>>, <<"E_TIMEOUT">>} : FinishFile(f, ok, codes)
    \/ Collect
    \/ MergeRecord
    \/ \E write_ok \in BOOLEAN : SaveCache(write_ok)
    \/ \E write_ok \in BOOLEAN : WriteReports(write_ok)
    \/ RunAgain

InitAnalysis ==
    /\ InitRun
    /\ IdleLimiter
    /\ IdleProcessFile
    /\ IdleParse
    /\ IdleCache
    /\ IdleScore
    /\ IdleFn

SpecRun == InitAnalysis /\ [][NextRun]_vars

\* C13: loading a document whose version is not the current one gives a cache
\* at the current version with no entries, none of the document's entries
\* kept, and is not an error.
C13_VersionMismatchLoadsEmpty ==
    (/\ cache_enabled
     /\ loads = 1
     /\ saves = 0
     /\ cache_file.kind = "document"
     /\ cache_file.version # CACHE_VERSION)
    => /\ run_pc # "aborted"
       /\ cache_snapshot.version = CACHE_VERSION
       /\ cache_snapshot.entries = <<>>
       /\ run_pc = "parallel" => cache_data = cache_snapshot

\* a document of another version that holds entries has been loaded
C13_Witness ==
    /\ cache_enabled
    /\ run_pc = "parallel"
    /\ loads = 1
    /\ cache_file.kind = "document"
    /\ cache_file.version = CACHE_VERSION + 1
    /\ DOMAIN cache_file.entries = {NormalizeCacheKey(f) : f \in RunFiles}

\* C14: when the cache file exists but cannot be read or parsed, the run goes
\* on with an empty cache and does not abort.
C14_UnreadableCacheDegradesToEmpty ==
    (/\ cache_enabled
     /\ cache_file.kind \in {"unreadable", "corrupt"}
     /\ loads = 1
     /\ saves = 0)
    => /\ run_pc # "aborted"
       /\ cache_snapshot = DefaultCache

\* some file is inside process_one_file
SomeFileInProcess ==
    \E f \in RunFiles : file_pc[f] \in {"fingerprinted", "extracting"}

AllFilesFinished == \A f \in RunFiles : file_pc[f] \in {"done", "failed"}

\* C15: in a run with caching on, the cache is loaded once, before any file
\* is processed; through the parallel phase the cache and the snapshot the
\* lookups read are the contents as loaded; the cache differs from the
\* snapshot, and records are merged, only when every file has finished; save
\* is called at most once, only when the merge loop has consumed every
\* record, it stores the merged cache, and a run that reaches the reports has
\* saved once.
C15_CacheLifecycle ==
    cache_enabled =>
        /\ loads <= 1
        /\ (\E f \in RunFiles : file_pc[f] # "todo") => loads = 1
        /\ run_pc = "parallel" =>
              /\ cache_snapshot = Load(cache_file).cache
              /\ cache_data = cache_snapshot
        /\ (cache_data # cache_snapshot \/ results # <<>>) =>
              /\ AllFilesFinished
              /\ run_pc # "parallel"
        /\ saves <= 1
        /\ saves = 1 =>
              /\ processed_records = <<>>
              /\ Len(results) = Len(Collected(AudioFiles, file_rec))
              /\ run_pc # "aborted" =>
                    cache_file = Storage("document", cache_data.version,
                                         cache_data.entries)
        /\ run_pc \in {"report", "done"} => saves = 1

\* a run that found one file in the cache and extracted the other, merged
\* both and has saved
C15_Witness ==
    /\ cache_enabled
    /\ run_pc = "done"
    /\ saves = 1
    /\ Len(results) = 2
    /\ results[1].cache_hit
    /\ ~results[2].cache_hit
    /\ cache_data # cache_snapshot

-----------------------------------------------------------------------------
(***************************************************************************)
(* Part 6.  QualityScorer.  Levels (dB, LUFS, LU) are integers in tenths,  *)
(* which is the grain of every threshold of the profiles; scores are       *)
(* integers in units of 1/Scale of a point, quotients floored.             *)
(***************************************************************************)

\* f64::INFINITY in tenths: larger than every threshold, and only compared
\* or clamped by the scorer
F64Infinity == 1000000

\* units of score per point: every slope of the five sub-scores is a whole
\* number of units per tenth (16 * 9 * 25 units)
Scale == 3600

Profiles == {"pop", "broadcast", "archive"}

\* ProfileConfig::from_profile, levels in tenths
ProfileConfig(profile) ==
    CASE profile = "pop" ->
            [target_lufs |-> -90, loudness_soft_range_low |-> -130,
             loudness_soft_range_high |-> -60, true_peak_warn |-> 1,
             true_peak_critical |-> 10, spectrum_fake_threshold |-> -850,
             spectrum_processed_threshold |-> -800,
             spectrum_good_threshold |-> -700, lra_poor_max |-> 30,
             lra_low_max |-> 50, lra_excellent_min |-> 55,
             lra_excellent_max |-> 100, lra_acceptable_max |-> 140,
             lra_too_high |-> 180, bitrate_low_kbps |-> 192,
             bitrate_high_kbps |-> 256]
      [] profile = "broadcast" ->
            [target_lufs |-> -230, loudness_soft_range_low |-> -250,
             loudness_soft_range_high |-> -220, true_peak_warn |-> -20,
             true_peak_critical |-> -10, spectrum_fake_threshold |-> -880,
             spectrum_processed_threshold |-> -820,
             spectrum_good_threshold |-> -720, lra_poor_max |-> 40,
             lra_low_max |-> 60, lra_excellent_min |-> 60,
             lra_excellent_max |-> 150, lra_acceptable_max |-> 200,
             lra_too_high |-> 240, bitrate_low_kbps |-> 192,
             bitrate_high_kbps |-> 256]
      [] profile = "archive" ->
            [target_lufs |-> -180, loudness_soft_range_low |-> -240,
             loudness_soft_range_high |-> -100, true_peak_warn |-> -5,
             true_peak_critical |-> -1, spectrum_fake_threshold |-> -850,
             spectrum_processed_threshold |-> -800,
             spectrum_good_threshold |-> -700, lra_poor_max |-> 25,
             lra_low_max |-> 40, lra_excellent_min |-> 50,
             lra_excellent_max |-> 140, lra_acceptable_max |-> 200,
             lra_too_high |-> 240, bitrate_low_kbps |-> 160,
             bitrate_high_kbps |-> 256]

\* elite_loudness_range
EliteLoudnessRange(profile) ==
    CASE profile = "pop" -> <<-105, -75>>
      [] profile = "broadcast" -> <<-240, -220>>
      [] profile = "archive" -> <<-200, -120>>

\* elite_true_peak_max
EliteTruePeakMax(profile) ==
    CASE profile = "pop" -> -2
      [] profile = "broadcast" -> -10
      [] profile = "archive" -> -3

\* elite_lra_range
EliteLraRange(profile) ==
    CASE profile = "pop" -> <<45, 110>>
      [] profile = "broadcast" -> <<60, 150>>
      [] profile = "archive" -> <<40, 160>>

Min(a, b) == IF a < b THEN a ELSE b

\* f64::clamp
Clamp(x, lo, hi) == IF x < lo THEN lo ELSE IF x > hi THEN hi ELSE x

Abs(x) == IF x < 0 THEN 0 - x ELSE x

\* is_lossless: by extension, by codec name or by container format
IsLossless(m) ==
    LET codec == IF m.codec_name = None THEN "" ELSE m.codec_name[1]
        container == IF m.container_format = None THEN ""
                     ELSE m.container_format[1]
    IN \/ m.file_ext \in {"flac", "alac", "wav", "aiff", "aif"}
       \* starts_with("pcm_"), by the one such codec the inputs name
       \/ codec \in {"pcm_s16le", "flac", "alac", "wavpack", "ape"}
       \* contains(..), by the container names the inputs name
       \/ container \in {"flac", "wav", "aiff"}

\* is_lossy without the early return for a lossless record
IsLossy_NoEarlyReturn(m) ==
    LET codec == IF m.codec_name = None THEN "" ELSE m.codec_name[1]
    IN \/ m.file_ext \in {"mp3", "aac", "m4a", "ogg", "opus", "wma"}
       \/ codec \in {"mp3", "aac", "vorbis", "opus", "wmav2", "mp2", "ac3"}

\* is_lossy
IsLossy(m) ==
    LET codec == IF m.codec_name = None THEN "" ELSE m.codec_name[1]
    IN IF IsLossless(m) THEN FALSE
       ELSE \/ m.file_ext \in {"mp3", "aac", "m4a", "ogg", "opus", "wma"}
            \/ codec \in {"mp3", "aac", "vorbis", "opus", "wmav2", "mp2", "ac3"}

\* count_missing_critical_fields
CountMissingCriticalFields(m) ==
    (IF m.rms_db_above_18k = None THEN 1 ELSE 0)
    + (IF m.lra = None THEN 1 ELSE 0)
    + (IF m.integrated_loudness_lufs = None THEN 1 ELSE 0)
    + (IF m.true_peak_dbtp = None /\ m.peak_amplitude_db = None THEN 1 ELSE 0)

\* matches!(field, Some(v) if v < bound)
SomeBelow(field, bound) == field # None /\ field[1] < bound

\* determine_status with the bitrate rule tried before the loudness rule
DetermineStatus_BitrateBeforeLoudness(m, profile) ==
    LET c == ProfileConfig(profile) IN
    IF CountMissingCriticalFields(m) >= 2 THEN "Incomplete"
    ELSE IF /\ m.rms_db_above_18k # None
            /\ IsLossless(m)
            /\ m.rms_db_above_18k[1] < c.spectrum_fake_threshold
        THEN "Suspicious"
    ELSE IF SomeBelow(m.rms_db_above_18k, c.spectrum_processed_threshold)
        THEN "Processed"
    ELSE IF m.true_peak_dbtp # None
            /\ m.true_peak_dbtp[1] >= c.true_peak_critical
        THEN "Clipped"
    ELSE IF m.true_peak_dbtp # None /\ m.true_peak_dbtp[1] >= c.true_peak_warn
        THEN "TruePeakRisk"
    ELSE IF /\ m.true_peak_dbtp = None
            /\ m.peak_amplitude_db # None
            /\ m.peak_amplitude_db[1] >= -1
        THEN "Clipped"
    ELSE IF IsLossy(m) /\ SomeBelow(m.bitrate_kbps, c.bitrate_low_kbps)
        THEN "LowBitrate"
    ELSE IF /\ m.integrated_loudness_lufs # None
            /\ \/ m.integrated_loudness_lufs[1] < c.loudness_soft_range_low
               \/ m.integrated_loudness_lufs[1] > c.loudness_soft_range_high
        THEN "LoudnessOffTarget"
    ELSE IF SomeBelow(m.sample_rate_hz, 44100) THEN "LowSampleRate"
    ELSE IF SomeBelow(m.channels, 2) THEN "Mono"
    ELSE IF SomeBelow(m.lra, c.lra_poor_max) THEN "SeverelyCompressed"
    ELSE IF SomeBelow(m.lra, c.lra_low_max) THEN "LowDynamic"
    ELSE "Good"

\* determine_status
DetermineStatus(m, profile) ==
    LET c == ProfileConfig(profile) IN
    IF CountMissingCriticalFields(m) >= 2 THEN "Incomplete"
    ELSE IF /\ m.rms_db_above_18k # None
            /\ IsLossless(m)
            /\ m.rms_db_above_18k[1] < c.spectrum_fake_threshold
        THEN "Suspicious"
    ELSE IF SomeBelow(m.rms_db_above_18k, c.spectrum_processed_threshold)
        THEN "Processed"
    ELSE IF m.true_peak_dbtp # None
            /\ m.true_peak_dbtp[1] >= c.true_peak_critical
        THEN "Clipped"
    ELSE IF m.true_peak_dbtp # None /\ m.true_peak_dbtp[1] >= c.true_peak_warn
        THEN "TruePeakRisk"
    ELSE IF /\ m.true_peak_dbtp = None
            /\ m.peak_amplitude_db # None
            /\ m.peak_amplitude_db[1] >= -1
        THEN "Clipped"
    ELSE IF /\ m.integrated_loudness_lufs # None
            /\ \/ m.integrated_loudness_lufs[1] < c.loudness_soft_range_low
               \/ m.integrated_loudness_lufs[1] > c.loudness_soft_range_high
        THEN "LoudnessOffTarget"
    ELSE IF IsLossy(m) /\ SomeBelow(m.bitrate_kbps, c.bitrate_low_kbps)
        THEN "LowBitrate"
    ELSE IF SomeBelow(m.sample_rate_hz, 44100) THEN "LowSampleRate"
    ELSE IF SomeBelow(m.channels, 2) THEN "Mono"
    ELSE IF SomeBelow(m.lra, c.lra_poor_max) THEN "SeverelyCompressed"
    ELSE IF SomeBelow(m.lra, c.lra_low_max) THEN "LowDynamic"
    ELSE "Good"

\* map_to_score with the value clamped to a range one unit too wide
MapToScore_WideClamp(value, in_min, in_max, out_min, out_max) ==
    IF in_max = in_min THEN out_min
    ELSE LET clamped_value == IF value < in_min - 1 THEN in_min - 1
                              ELSE IF value > in_max + 1 THEN in_max + 1
                              ELSE value
         IN out_min + ((clamped_value - in_min) * (out_max - out_min))
                          \div (in_max - in_min)

\* map_to_score: value and the input range in tenths (or kbps), the output
\* range in units of score.  A width of the input range below f64::EPSILON
\* is a width of 0 on this grid.
MapToScore(value, in_min, in_max, out_min, out_max) ==
    IF in_max = in_min THEN out_min
    ELSE out_min + ((Clamp(value, in_min, in_max) - in_min)
                        * (out_max - out_min)) \div (in_max - in_min)

\* calculate_compliance_score
CalculateComplianceScore(m, profile) ==
    LET c == ProfileConfig(profile)
        loudness_score ==
            IF m.integrated_loudness_lufs = None THEN 0
            ELSE LET delta == Abs(m.integrated_loudness_lufs[1] - c.target_lufs)
                 IN IF delta <= 10 THEN 20 * Scale
                    ELSE IF delta <= 30
                        THEN MapToScore(delta, 10, 30, 20 * Scale, 12 * Scale)
                    ELSE IF delta <= 60
                        THEN MapToScore(delta, 30, 60, 12 * Scale, 2 * Scale)
                    ELSE 0
        peak_score ==
            IF m.true_peak_dbtp # None
            THEN LET tp == m.true_peak_dbtp[1] IN
                 IF tp <= c.true_peak_warn THEN 15 * Scale
                 ELSE IF tp <= c.true_peak_critical
                     THEN MapToScore(tp, c.true_peak_warn, c.true_peak_critical,
                                     15 * Scale, 4 * Scale)
                 ELSE 0
            ELSE IF m.peak_amplitude_db # None
            THEN LET peak == m.peak_amplitude_db[1] IN
                 IF peak <= -10 THEN 8 * Scale
                 ELSE IF peak <= 0
                     THEN MapToScore(peak, -10, 0, 8 * Scale, 2 * Scale)
                 ELSE 0
            ELSE 0
    IN loudness_score + peak_score

\* calculate_dynamics_score
CalculateDynamicsScore(m, profile) ==
    LET c == ProfileConfig(profile) IN
    IF m.lra = None THEN 0
    ELSE LET lra == m.lra[1] IN
         IF lra >= c.lra_excellent_min /\ lra <= c.lra_excellent_max
             THEN 20 * Scale
         ELSE IF lra >= c.lra_low_max /\ lra < c.lra_excellent_min
             THEN MapToScore(lra, c.lra_low_max, c.lra_excellent_min,
                             12 * Scale, 19 * Scale)
         ELSE IF lra > c.lra_excellent_max /\ lra <= c.lra_acceptable_max
             THEN MapToScore(lra, c.lra_excellent_max, c.lra_acceptable_max,
                             19 * Scale, 13 * Scale)
         ELSE IF lra >= c.lra_poor_max /\ lra < c.lra_low_max
             THEN MapToScore(lra, c.lra_poor_max, c.lra_low_max,
                             5 * Scale, 12 * Scale)
         ELSE IF lra > c.lra_too_high THEN 10 * Scale
         ELSE MapToScore(lra, 0, c.lra_poor_max, 0, 5 * Scale)

\* calculate_spectrum_score
CalculateSpectrumScore(m, profile) ==
    LET c == ProfileConfig(profile)
        score_16k ==
            IF m.rms_db_above_16k = None THEN 0
            ELSE MapToScore(m.rms_db_above_16k[1], -950, -550, 0, 15 * Scale)
        score_18k ==
            IF m.rms_db_above_18k = None THEN 0
            ELSE LET v == m.rms_db_above_18k[1] IN
                 IF v >= c.spectrum_good_threshold THEN 10 * Scale
                 ELSE IF v >= c.spectrum_processed_threshold
                     THEN MapToScore(v, c.spectrum_processed_threshold,
                                     c.spectrum_good_threshold,
                                     6 * Scale, 10 * Scale)
                 ELSE IF v >= c.spectrum_fake_threshold
                     THEN MapToScore(v, c.spectrum_fake_threshold,
                                     c.spectrum_processed_threshold,
                                     2 * Scale, 6 * Scale)
                 ELSE 0
    IN score_16k + score_18k

\* matches!(field, Some(v) if v >= bound)
SomeAtLeast(field, bound) == field # None /\ field[1] >= bound

\* calculate_authenticity_score
CalculateAuthenticityScore(m, profile) ==
    LET c == ProfileConfig(profile)
        base ==
            IF IsLossless(m)
               /\ SomeBelow(m.rms_db_above_18k, c.spectrum_fake_threshold)
                THEN 0
            ELSE IF SomeBelow(m.rms_db_above_18k,
                              c.spectrum_processed_threshold)
                THEN 4 * Scale
            ELSE 10 * Scale
        score ==
            IF /\ IsLossy(m)
               /\ SomeAtLeast(m.bitrate_kbps, c.bitrate_high_kbps)
               /\ SomeBelow(m.rms_db_above_18k, c.spectrum_processed_threshold)
            THEN base - 2 * Scale
            ELSE base
    IN Max(score, 0)

\* calculate_integrity_score
CalculateIntegrityScore(m) ==
    LET score == Max((10 - CountMissingCriticalFields(m) * 3) * Scale, 0)
    IN IF m.error_codes # <<>>
       THEN Max(score - Min(2, Len(m.error_codes)) * Scale, 0)
       ELSE score

\* soft_band_score, in units of 1/Scale
SoftBandScore(value, preferred_min, preferred_max, soft_min, soft_max) ==
    IF value >= preferred_min /\ value <= preferred_max THEN Scale
    ELSE IF value < preferred_min
        THEN IF preferred_min <= soft_min THEN 0
             ELSE IF value >= soft_min
                 THEN MapToScore(value, soft_min, preferred_min, 0, Scale)
             ELSE 0
    ELSE IF preferred_max >= soft_max THEN 0
    ELSE IF value <= soft_max
        THEN MapToScore(value, preferred_max, soft_max, Scale, 0)
    ELSE 0

\* estimate_elite_readiness, in units of 1/Scale
EstimateEliteReadiness(m, profile) ==
    LET c == ProfileConfig(profile)
        loudness_score ==
            IF m.integrated_loudness_lufs = None THEN 0
            ELSE SoftBandScore(m.integrated_loudness_lufs[1],
                               EliteLoudnessRange(profile)[1],
                               EliteLoudnessRange(profile)[2],
                               c.loudness_soft_range_low,
                               c.loudness_soft_range_high)
        elite_tp_max == EliteTruePeakMax(profile)
        soft_tp_max == Max(c.true_peak_critical, elite_tp_max + 6)
        tp_score ==
            IF m.true_peak_dbtp # None
            THEN LET tp == m.true_peak_dbtp[1] IN
                 IF tp <= elite_tp_max THEN Scale
                 ELSE IF tp <= soft_tp_max
                     THEN MapToScore(tp, elite_tp_max, soft_tp_max, Scale, 0)
                 ELSE 0
            ELSE IF m.peak_amplitude_db # None
            THEN LET peak == m.peak_amplitude_db[1] IN
                 IF peak <= -10 THEN (9 * Scale) \div 10
                 ELSE IF peak <= 0
                     THEN MapToScore(peak, -10, 0, (9 * Scale) \div 10, 0)
                 ELSE 0
            ELSE 0
        lra_score ==
            IF m.lra = None THEN 0
            ELSE SoftBandScore(m.lra[1], EliteLraRange(profile)[1],
                               EliteLraRange(profile)[2], c.lra_low_max,
                               c.lra_acceptable_max)
        spectrum_score ==
            IF m.rms_db_above_18k = None THEN 0
            ELSE LET value == m.rms_db_above_18k[1] IN
                 IF value >= c.spectrum_processed_threshold
                     THEN MapToScore(value, c.spectrum_processed_threshold,
                                     c.spectrum_good_threshold,
                                     (7 * Scale) \div 10, Scale)
                 ELSE IF value >= c.spectrum_fake_threshold
                     THEN MapToScore(value, c.spectrum_fake_threshold,
                                     c.spectrum_processed_threshold,
                                     0, (7 * Scale) \div 10)
                 ELSE 0
        bitrate_score ==
            IF IsLossy(m)
            THEN IF m.bitrate_kbps = None THEN 0
                 ELSE LET bitrate == m.bitrate_kbps[1] IN
                      IF bitrate >= c.bitrate_high_kbps THEN Scale
                      ELSE IF bitrate >= c.bitrate_low_kbps
                          THEN MapToScore(bitrate, c.bitrate_low_kbps,
                                          c.bitrate_high_kbps,
                                          (35 * Scale) \div 100, Scale)
                      ELSE 0
            ELSE Scale
        readiness == (loudness_score * 26 + tp_score * 20 + lra_score * 22
                      + spectrum_score * 20 + bitrate_score * 12) \div 100
    IN Clamp(readiness, 0, Scale)

\* an elite gate that does not look at the true peak
QualifiesForElite90_NoTruePeak(m, status, profile) ==
    LET c == ProfileConfig(profile) IN
    /\ status = "Good"
    /\ m.integrated_loudness_lufs # None
    /\ m.lra # None
    /\ m.rms_db_above_18k # None
    /\ m.integrated_loudness_lufs[1] >= EliteLoudnessRange(profile)[1]
    /\ m.integrated_loudness_lufs[1] <= EliteLoudnessRange(profile)[2]
    /\ m.lra[1] >= EliteLraRange(profile)[1]
    /\ m.lra[1] <= EliteLraRange(profile)[2]
    /\ m.rms_db_above_18k[1] >= c.spectrum_processed_threshold
    /\ IsLossy(m) => SomeAtLeast(m.bitrate_kbps, c.bitrate_high_kbps)

\* qualifies_for_elite_90
QualifiesForElite90(m, status, profile) ==
    LET c == ProfileConfig(profile) IN
    /\ status = "Good"
    /\ m.integrated_loudness_lufs # None
    /\ m.true_peak_dbtp # None
    /\ m.lra # None
    /\ m.rms_db_above_18k # None
    /\ m.integrated_loudness_lufs[1] >= EliteLoudnessRange(profile)[1]
    /\ m.integrated_loudness_lufs[1] <= EliteLoudnessRange(profile)[2]
    /\ m.true_peak_dbtp[1] <= EliteTruePeakMax(profile)
    /\ m.lra[1] >= EliteLraRange(profile)[1]
    /\ m.lra[1] <= EliteLraRange(profile)[2]
    /\ m.rms_db_above_18k[1] >= c.spectrum_processed_threshold
    /\ IsLossy(m) => SomeAtLeast(m.bitrate_kbps, c.bitrate_high_kbps)

\* a compression whose upper end is 90
CompressNonEliteHighScore_To90(raw_score, m, profile) ==
    LET high_band_progress == Clamp((raw_score - 90 * Scale) \div 9, 0, Scale)
        compressed == 86 * Scale + high_band_progress * 2
                      + EstimateEliteReadiness(m, profile) * 2
    IN Clamp(compressed, 85 * Scale, 90 * Scale)

\* compress_non_elite_high_score
CompressNonEliteHighScore(raw_score, m, profile) ==
    LET high_band_progress == Clamp((raw_score - 90 * Scale) \div 9, 0, Scale)
        compressed == 85 * Scale + high_band_progress * 2
                      + EstimateEliteReadiness(m, profile) * 2
    IN Clamp(compressed, 85 * Scale, 89 * Scale)

HARD_MAX_SCORE == 99

\* f64::round of a score that is not negative
Round(x) == (x + Scale \div 2) \div Scale

\* the sum of the five sub-scores
SubScoreSum(m, profile) ==
    CalculateComplianceScore(m, profile) + CalculateDynamicsScore(m, profile)
    + CalculateSpectrumScore(m, profile)
    + CalculateAuthenticityScore(m, profile) + CalculateIntegrityScore(m)

\* the flat deductions
Deductions(m, profile) ==
    LET c == ProfileConfig(profile) IN
    (IF IsLossy(m) /\ SomeBelow(m.bitrate_kbps, c.bitrate_low_kbps)
     THEN 12 * Scale ELSE 0)
    + (IF /\ IsLossy(m)
          /\ m.bitrate_kbps # None
          /\ m.bitrate_kbps[1] > c.bitrate_high_kbps
          /\ SomeBelow(m.rms_db_above_18k, c.spectrum_processed_threshold)
       THEN 8 * Scale ELSE 0)
    + (IF SomeBelow(m.sample_rate_hz, 44100) THEN 10 * Scale ELSE 0)
    + (IF SomeBelow(m.channels, 2) THEN 3 * Scale ELSE 0)

\* a scorer without status caps
StatusCap_None(total_score, status) == total_score

\* the cap of the status
StatusCap(total_score, status) ==
    CASE status = "Suspicious" -> Min(total_score, 25 * Scale)
      [] status = "Incomplete" -> Min(total_score, 45 * Scale)
      [] status = "Clipped" -> Min(total_score, 85 * Scale)
      [] status = "TruePeakRisk" -> Min(total_score, 92 * Scale)
      [] OTHER -> total_score

\* the score after deductions and the cap of the status
CappedScore(m, status, profile) ==
    StatusCap(SubScoreSum(m, profile) - Deductions(m, profile), status)

\* a final clamp that lets 100 through
FinalScore_To100(total_score) ==
    Clamp(Round(Clamp(total_score, 0, (HARD_MAX_SCORE + 1) * Scale)),
          0, HARD_MAX_SCORE + 1)

\* the final clamp and rounding
FinalScore(total_score) ==
    Clamp(Round(Clamp(total_score, 0, HARD_MAX_SCORE * Scale)),
          0, HARD_MAX_SCORE)

\* calculate_quality_score
CalculateQualityScore(m, status, profile) ==
    LET capped == CappedScore(m, status, profile)
        gated == IF capped > 90 * Scale
                    /\ ~QualifiesForElite90(m, status, profile)
                 THEN CompressNonEliteHighScore(capped, m, profile)
                 ELSE capped
    IN FinalScore(gated)

\* The records the scorer is run on: for every field, absent, infinite where
\* a report can be, and values at and next to the thresholds of the profile.

LoudnessValues(profile) ==
    {None, Some(0 - F64Infinity), Some(ProfileConfig(profile).target_lufs),
     Some(EliteLoudnessRange(profile)[1] - 1)}

\* true peak with the sample peak: the sample peak counts only when the true
\* peak is absent
PeakValues(profile) ==
    LET c == ProfileConfig(profile)
        elite == Min(c.true_peak_warn, EliteTruePeakMax(profile)) - 1
    IN {<<Some(tp), None>> :
            tp \in {c.true_peak_critical, c.true_peak_warn,
                    c.true_peak_warn - 1, elite}}
       \cup {<<Some(elite), Some(0)>>}
       \cup {<<None, peak>> : peak \in {None, Some(-20), Some(-1)}}

LraValues(profile) ==
    LET c == ProfileConfig(profile) IN
    {None, Some(F64Infinity), Some(c.lra_excellent_min),
     Some(c.lra_poor_max - 1), Some(c.lra_low_max - 1)}

Rms18kValues(profile) ==
    LET c == ProfileConfig(profile) IN
    {None, Some(0 - F64Infinity), Some(c.spectrum_processed_threshold - 1),
     Some(c.spectrum_processed_threshold), Some(c.spectrum_good_threshold)}

Rms16kValues == {None, Some(-550)}

\* extension, codec name and bitrate
FormatValues(profile) ==
    LET c == ProfileConfig(profile) IN
    {<<"flac", None, None>>,
     <<"mp3", Some("flac"), Some(c.bitrate_low_kbps - 1)>>,
     <<"bin", None, Some(c.bitrate_low_kbps - 1)>>}
    \cup {<<"mp3", None, bitrate>> :
            bitrate \in {None, Some(c.bitrate_low_kbps - 1),
                         Some(c.bitrate_low_kbps), Some(c.bitrate_high_kbps),
                         Some(c.bitrate_high_kbps + 1)}}

\* sample rate and channel count
StreamValues ==
    {<<Some(44100), Some(2)>>, <<Some(22050), Some(2)>>,
     <<Some(44100), Some(1)>>, <<None, None>>}

ErrorCodeLists == {<<>>, <<"E_RMS16K", "E_RMS20K", "E_TIMEOUT">>}

ScorerInputs(profile) ==
    {[file_ext |-> format[1], codec_name |-> format[2],
      container_format |-> None, bitrate_kbps |-> format[3],
      integrated_loudness_lufs |-> lufs, true_peak_dbtp |-> peak[1],
      peak_amplitude_db |-> peak[2], lra |-> lra,
      rms_db_above_16k |-> rms16, rms_db_above_18k |-> rms18,
      sample_rate_hz |-> stream[1], channels |-> stream[2],
      error_codes |-> codes] :
        format \in FormatValues(profile), lufs \in LoudnessValues(profile),
        peak \in PeakValues(profile), lra \in LraValues(profile),
        rms16 \in Rms16kValues, rms18 \in Rms18kValues(profile),
        stream \in StreamValues, codes \in ErrorCodeLists}

InitScore ==
    /\ score_pc = "input"
    /\ scorer_profile \in Profiles
    /\ scored_metrics \in ScorerInputs(scorer_profile)
    /\ analysis = <<>>

\* analyze_file
AnalyzeFile ==
    /\ score_pc = "input"
    /\ LET status == DetermineStatus(scored_metrics, scorer_profile) IN
       analysis' = [status |-> status,
                    quality_score |->
                        CalculateQualityScore(scored_metrics, status,
                                              scorer_profile)]
    /\ score_pc' = "analyzed"
    /\ UNCHANGED <<scorer_profile, scored_metrics, notScore>>

NextScore == AnalyzeFile

InitScorer ==
    /\ InitScore
    /\ IdleFn
    /\ IdleLimiter
    /\ IdleProcessFile
    /\ IdleParse
    /\ IdleCache
    /\ IdleRun

SpecScore == InitScorer /\ [][NextScore]_vars

\* C16: the quality score is an integer from 0 to 99, for every record and
\* every profile.
C16_ScoreWithin0And99 ==
    score_pc = "analyzed" =>
        /\ analysis.quality_score \in Int
        /\ analysis.quality_score >= 0
        /\ analysis.quality_score <= 99

\* a record whose sub-scores sum to 100 points got 99
C16_Witness ==
    /\ score_pc = "analyzed"
    /\ SubScoreSum(scored_metrics, scorer_profile) = 100 * Scale
    /\ Deductions(scored_metrics, scorer_profile) = 0
    /\ analysis.quality_score = 99

\* C17: the score respects the cap of the status: Suspicious at most 25,
\* Incomplete at most 45, Clipped at most 85, TruePeakRisk at most 92.
C17_StatusCaps ==
    score_pc = "analyzed" =>
        /\ analysis.status = "Suspicious" => analysis.quality_score <= 25
        /\ analysis.status = "Incomplete" => analysis.quality_score <= 45
        /\ analysis.status = "Clipped" => analysis.quality_score <= 85
        /\ analysis.status = "TruePeakRisk" => analysis.quality_score <= 92

\* a Clipped record whose sub-scores less deductions exceed 85 points
C17_Witness ==
    /\ score_pc = "analyzed"
    /\ analysis.status = "Clipped"
    /\ SubScoreSum(scored_metrics, scorer_profile)
          - Deductions(scored_metrics, scorer_profile) > 85 * Scale
    /\ analysis.quality_score = 85

\* the four fields of the elite gate are present and inside the elite bands
\* of the profile
InEliteBands(m, profile) ==
    /\ m.integrated_loudness_lufs # None
    /\ m.true_peak_dbtp # None
    /\ m.lra # None
    /\ m.rms_db_above_18k # None
    /\ m.integrated_loudness_lufs[1] \in
          EliteLoudnessRange(profile)[1] .. EliteLoudnessRange(profile)[2]
    /\ m.true_peak_dbtp[1] <= EliteTruePeakMax(profile)
    /\ m.lra[1] \in EliteLraRange(profile)[1] .. EliteLraRange(profile)[2]
    /\ m.rms_db_above_18k[1]
          >= ProfileConfig(profile).spectrum_processed_threshold

\* C18 as stated: a score above 90 implies status Good, the four fields
\* present and inside the elite bands, and for a lossy file a bitrate above
\* the high threshold of the profile.
C18_EliteGateBitrateAbove ==
    (score_pc = "analyzed" /\ analysis.quality_score > 90) =>
        /\ analysis.status = "Good"
        /\ InEliteBands(scored_metrics, scorer_profile)
        /\ IsLossy(scored_metrics) =>
              /\ scored_metrics.bitrate_kbps # None
              /\ scored_metrics.bitrate_kbps[1]
                    > ProfileConfig(scorer_profile).bitrate_high_kbps

\* C18 amended: a score above 90 implies status Good, the four fields present
\* and inside the elite bands, and for a lossy file a bitrate at or above the
\* high threshold of the profile.
C18_EliteGate ==
    (score_pc = "analyzed" /\ analysis.quality_score > 90) =>
        /\ analysis.status = "Good"
        /\ InEliteBands(scored_metrics, scorer_profile)
        /\ IsLossy(scored_metrics) =>
              /\ scored_metrics.bitrate_kbps # None
              /\ scored_metrics.bitrate_kbps[1]
                    >= ProfileConfig(scorer_profile).bitrate_high_kbps

\* a lossy file at the high threshold scored above 90
C18_Witness ==
    /\ score_pc = "analyzed"
    /\ analysis.quality_score > 90
    /\ IsLossy(scored_metrics)
    /\ scored_metrics.bitrate_kbps
          = Some(ProfileConfig(scorer_profile).bitrate_high_kbps)

\* C19: a record that fails the elite gate and whose score after deductions
\* and the cap of its status is above 90 gets a final score from 85 to 89.
C19_NonEliteCompressed ==
    (/\ score_pc = "analyzed"
     /\ ~QualifiesForElite90(scored_metrics, analysis.status, scorer_profile)
     /\ CappedScore(scored_metrics, analysis.status, scorer_profile)
           > 90 * Scale)
    => analysis.quality_score \in 85..89

\* a Good record outside the elite bands whose capped score is 100 points
C19_Witness ==
    /\ score_pc = "analyzed"
    /\ analysis.status = "Good"
    /\ ~InEliteBands(scored_metrics, scorer_profile)
    /\ CappedScore(scored_metrics, analysis.status, scorer_profile)
          = 100 * Scale
    /\ analysis.quality_score = 89


\* The decision list of the status as a sequence of rules, each with the
\* condition under which it matches; a rule on a field matches only when the
\* field is present.
StatusRules(m, profile) ==
    LET c == ProfileConfig(profile)
        absent(field) == IF field = None THEN 1 ELSE 0
        below(field, bound) == \E v \in {field[i] : i \in DOMAIN field} :
                                  v < bound
        atLeast(field, bound) == \E v \in {field[i] : i \in DOMAIN field} :
                                    v >= bound
    IN <<
      [status |-> "Incomplete",
       matches |->
          absent(m.rms_db_above_18k) + absent(m.lra)
            + absent(m.integrated_loudness_lufs)
            + (IF m.true_peak_dbtp = None /\ m.peak_amplitude_db = None
               THEN 1 ELSE 0) >= 2],
      [status |-> "Suspicious",
       matches |-> IsLossless(m)
                   /\ below(m.rms_db_above_18k, c.spectrum_fake_threshold)],
      [status |-> "Processed",
       matches |-> below(m.rms_db_above_18k, c.spectrum_processed_threshold)],
      [status |-> "Clipped",
       matches |-> \/ atLeast(m.true_peak_dbtp, c.true_peak_critical)
                   \/ m.true_peak_dbtp = None
                        /\ atLeast(m.peak_amplitude_db, -1)],
      [status |-> "TruePeakRisk",
       matches |-> atLeast(m.true_peak_dbtp, c.true_peak_warn)],
      [status |-> "LoudnessOffTarget",
       matches |->
          \/ below(m.integrated_loudness_lufs, c.loudness_soft_range_low)
          \/ atLeast(m.integrated_loudness_lufs,
                     c.loudness_soft_range_high + 1)],
      [status |-> "LowBitrate",
       matches |-> IsLossy(m) /\ below(m.bitrate_kbps, c.bitrate_low_kbps)],
      [status |-> "LowSampleRate", matches |-> below(m.sample_rate_hz, 44100)],
      [status |-> "Mono", matches |-> below(m.channels, 2)],
      [status |-> "SeverelyCompressed",
       matches |-> below(m.lra, c.lra_poor_max)],
      [status |-> "LowDynamic", matches |-> below(m.lra, c.lra_low_max)],
      [status |-> "Good", matches |-> TRUE] >>

\* the positions of the rules of a list that match
MatchingRules(rules) == {i \in DOMAIN rules : rules[i].matches}

\* C20: determine_status returns the status of the first matching rule of
\* the decision list Incomplete, Suspicious, Processed, Clipped, TruePeakRisk,
\* LoudnessOffTarget, LowBitrate, LowSampleRate, Mono, SeverelyCompressed,
\* LowDynamic, Good, and a field that is absent never makes its rule match.
C20_FirstMatchingRuleWins ==
    score_pc = "analyzed" =>
        LET m == scored_metrics
            rules == StatusRules(m, scorer_profile)
            matching == MatchingRules(rules)
            first == CHOOSE i \in matching : \A j \in matching : i <= j
        IN /\ analysis.status = rules[first].status
           /\ m.rms_db_above_18k = None
                 => analysis.status \notin {"Suspicious", "Processed"}
           /\ m.true_peak_dbtp = None => analysis.status # "TruePeakRisk"
           /\ (m.true_peak_dbtp = None /\ m.peak_amplitude_db = None)
                 => analysis.status # "Clipped"
           /\ m.integrated_loudness_lufs = None
                 => analysis.status # "LoudnessOffTarget"
           /\ m.bitrate_kbps = None => analysis.status # "LowBitrate"
           /\ m.sample_rate_hz = None => analysis.status # "LowSampleRate"
           /\ m.channels = None => analysis.status # "Mono"
           /\ m.lra = None
                 => analysis.status \notin {"SeverelyCompressed", "LowDynamic"}

\* a record matching the loudness, bitrate and loudness-range rules got the
\* status of the earliest of them
C20_Witness ==
    /\ score_pc = "analyzed"
    /\ Cardinality(MatchingRules(StatusRules(scored_metrics,
                                               scorer_profile))) >= 5
    /\ IsLossy(scored_metrics)
    /\ SomeBelow(scored_metrics.bitrate_kbps,
                 ProfileConfig(scorer_profile).bitrate_low_kbps)
    /\ analysis.status = "LoudnessOffTarget"


-----------------------------------------------------------------------------
(***************************************************************************)
(* Part 7.  The functions of the scorer, each called on its own with       *)
(* arguments drawn from a bounded set.                                     *)
(***************************************************************************)

\* the ends of an input range of map_to_score run from 0 to MaxRange
MaxRange == 4

\* the calls of map_to_score: a value below, inside and above the range or
\* infinite, a range that may be degenerate, and an output range that rises,
\* falls or is flat
MapToScoreCalls ==
    {[fn |-> "map_to_score", value |-> value, in_min |-> in_min,
      in_max |-> in_max, out_min |-> out_min * Scale,
      out_max |-> out_max * Scale] :
        value \in (-2 .. MaxRange + 2) \cup {0 - F64Infinity, F64Infinity},
        in_min \in 0..MaxRange, in_max \in 0..MaxRange,
        out_min \in {0, 8, 20}, out_max \in {0, 8, 20}}

\* the calls of is_lossy: extension, codec name and container name, each of
\* them lossless, lossy, neither or (the names) absent
IsLossyCalls ==
    {[fn |-> "is_lossy",
      m |-> [file_ext |-> ext, codec_name |-> codec,
             container_format |-> container]] :
        ext \in {"flac", "aif", "mp3", "m4a", "bin", ""},
        codec \in {None, Some("alac"), Some("pcm_s16le"), Some("mp3"),
                   Some("ac3"), Some("h264")},
        container \in {None, Some("wav"), Some("flac"), Some("aiff"),
                       Some("mp3"), Some("matroska")}}

\* is_lossy, with the is_lossless it calls first
CallIsLossy ==
    /\ fn_pc = "input"
    /\ fn_call.fn = "is_lossy"
    /\ fn_ret' = [is_lossless |-> IsLossless(fn_call.m),
                  is_lossy |-> IsLossy(fn_call.m)]
    /\ fn_pc' = "returned"
    /\ UNCHANGED <<fn_call, notFn>>

\* estimate_confidence without the final clamp
EstimateConfidence_NoClamp(m) ==
    100 - CountMissingCriticalFields(m) * 18 - 8 * Len(m.error_codes)

\* estimate_confidence, in hundredths
EstimateConfidence(m) ==
    LET missing == CountMissingCriticalFields(m)
        confidence == 100 - missing * 18
        with_codes == IF m.error_codes # <<>>
                      THEN confidence - 8 * Len(m.error_codes)
                      ELSE confidence
    IN Clamp(with_codes, 10, 100)

\* the most error codes a metrics record carries
MaxErrorCodes == 6

\* codes process_file can attach, sorted
CodeNames ==
    <<"E_EBUR128", "E_EXEC_FAILED", "E_EXEC_SPAWN", "E_FFPROBE",
      "E_PARSE_EBUR128", "E_RMS16K", "E_RMS18K", "E_RMS20K", "E_STATS">>

\* the calls of estimate_confidence: every critical field present or absent
\* and zero to MaxErrorCodes error codes
EstimateConfidenceCalls ==
    {[fn |-> "estimate_confidence",
      m |-> [rms_db_above_18k |-> rms18, lra |-> lra,
             integrated_loudness_lufs |-> lufs, true_peak_dbtp |-> tp,
             peak_amplitude_db |-> peak,
             error_codes |-> SubSeq(CodeNames, 1, n)]] :
        rms18 \in {None, Some(-800)}, lra \in {None, Some(80)},
        lufs \in {None, Some(-140)}, tp \in {None, Some(-10)},
        peak \in {None, Some(-20)},
        n \in 0..Min(MaxErrorCodes, Len(CodeNames))}

\* estimate_confidence
CallEstimateConfidence ==
    /\ fn_pc = "input"
    /\ fn_call.fn = "estimate_confidence"
    /\ fn_ret' = EstimateConfidence(fn_call.m)
    /\ fn_pc' = "returned"
    /\ UNCHANGED <<fn_call, notFn>>

\* the loudness ranges calculate_dynamics_score is called on reach MaxLra
\* tenths of a LU
MaxLra == 260

\* the calls of calculate_dynamics_score: a profile and two loudness ranges
\* a < b, in steps of half a LU, scored one after the other
CalculateDynamicsScoreCalls ==
    {[fn |-> "calculate_dynamics_score", profile |-> profile,
      a |-> a * 5, b |-> b * 5] :
        profile \in Profiles,
        a \in 0 .. MaxLra \div 5, b \in 0 .. MaxLra \div 5}

\* calculate_dynamics_score, for both loudness ranges of the call
CallCalculateDynamicsScore ==
    /\ fn_pc = "input"
    /\ fn_call.fn = "calculate_dynamics_score"
    /\ fn_ret' = [a |-> CalculateDynamicsScore([lra |-> Some(fn_call.a)],
                                               fn_call.profile),
                  b |-> CalculateDynamicsScore([lra |-> Some(fn_call.b)],
                                               fn_call.profile)]
    /\ fn_pc' = "returned"
    /\ UNCHANGED <<fn_call, notFn>>

\* the streaming lines of a report print at most MaxStreamLines values of a
\* field
MaxStreamLines == 2

\* value texts of the summary: absent, captured but not a number, a number
SummaryTexts == {<<>>, <<"-">>, <<"1">>}

\* value texts of the streaming lines
StreamTexts == {<<"-">>, <<"2">>, <<"3">>}

RECURSIVE StreamsUpTo(_)
StreamsUpTo(n) ==
    IF n = 0 THEN {<<>>}
    ELSE LET shorter == StreamsUpTo(n - 1) IN
         shorter \cup {Append(lines, t) : lines \in shorter, t \in StreamTexts}

\* the reports get_ebur128_stats is called on
GetEbur128StatsCalls ==
    {[fn |-> "get_ebur128_stats", lra |-> lra, i |-> i, tp |-> tp,
      lra_stream |-> lra_stream, tpk_stream |-> tpk_stream] :
        lra \in SummaryTexts, i \in SummaryTexts, tp \in SummaryTexts,
        lra_stream \in StreamsUpTo(MaxStreamLines),
        tpk_stream \in StreamsUpTo(MaxStreamLines)}

\* process_file's match on the result of get_ebur128_stats: the pushed error
\* code and the three loudness fields
Ebur128Fields(ebur_res) ==
    IF ebur_res.failed
    THEN [error_codes |-> <<ebur_res.code>>, lra |-> None,
          integrated_loudness_lufs |-> None, true_peak_dbtp |-> None]
    ELSE [error_codes |-> <<>>, lra |-> ebur_res.val.lra,
          integrated_loudness_lufs |-> ebur_res.val.integrated_loudness_lufs,
          true_peak_dbtp |-> ebur_res.val.true_peak_dbtp]

\* get_ebur128_stats and what process_file makes of its result
CallGetEbur128Stats ==
    /\ fn_pc = "input"
    /\ fn_call.fn = "get_ebur128_stats"
    /\ fn_ret' = Ebur128Fields(GetEbur128Stats(fn_call.lra, fn_call.i,
                                               fn_call.tp, fn_call.lra_stream,
                                               fn_call.tpk_stream))
    /\ fn_pc' = "returned"
    /\ UNCHANGED <<fn_call, notFn>>

\* the QualityAnalysis analyze_file builds: status and score
AnalyzeFileResult(m, profile) ==
    LET status == DetermineStatus(m, profile) IN
    [status |-> status,
     quality_score |-> CalculateQualityScore(m, status, profile)]

\* analyze_files maps in parallel from this length on
ParallelThreshold == 10

\* the longest list analyze_files is called on
MaxListLen == 10

\* three records that analyze_file tells apart under every profile: a
\* complete lossless one, a clipped low-bitrate mp3, and one with no
\* loudness fields
BatchRecords ==
    <<[file_ext |-> "flac", codec_name |-> Some("flac"),
       container_format |-> Some("flac"), bitrate_kbps |-> Some(900),
       integrated_loudness_lufs |-> Some(-180), true_peak_dbtp |-> Some(-30),
       peak_amplitude_db |-> Some(-32), lra |-> Some(80),
       rms_db_above_16k |-> Some(-600), rms_db_above_18k |-> Some(-700),
       sample_rate_hz |-> Some(44100), channels |-> Some(2),
       error_codes |-> <<>>],
      [file_ext |-> "mp3", codec_name |-> Some("mp3"),
       container_format |-> Some("mp3"), bitrate_kbps |-> Some(128),
       integrated_loudness_lufs |-> Some(-180), true_peak_dbtp |-> Some(15),
       peak_amplitude_db |-> Some(0), lra |-> Some(80),
       rms_db_above_16k |-> Some(-600), rms_db_above_18k |-> Some(-700),
       sample_rate_hz |-> Some(44100), channels |-> Some(2),
       error_codes |-> <<>>],
      [file_ext |-> "ogg", codec_name |-> None,
       container_format |-> None, bitrate_kbps |-> None,
       integrated_loudness_lufs |-> None, true_peak_dbtp |-> None,
       peak_amplitude_db |-> None, lra |-> None,
       rms_db_above_16k |-> None, rms_db_above_18k |-> Some(-700),
       sample_rate_hz |-> None, channels |-> None,
       error_codes |-> <<"E_EBUR128", "E_STATS">>]>>

\* the calls of analyze_files: a profile and a list that is empty, of one
\* record, one short of the threshold, or at and above it, cycling through
\* the records from two starting points
AnalyzeFilesCalls ==
    {[fn |-> "analyze_files", profile |-> profile,
      metrics_list |-> [i \in 1..n |->
                          BatchRecords[((i + first) % Len(BatchRecords)) + 1]]] :
        profile \in Profiles, first \in 0..1,
        n \in {0, 1, ParallelThreshold - 1}
                \cup (ParallelThreshold .. MaxListLen)}

\* analyze_files, sequential path: iter().map(analyze_file).collect()
AnalyzeFilesSequential ==
    /\ fn_pc = "input"
    /\ fn_call.fn = "analyze_files"
    /\ Len(fn_call.metrics_list) < ParallelThreshold
    /\ fn_ret' = [i \in 1..Len(fn_call.metrics_list) |->
                    AnalyzeFileResult(fn_call.metrics_list[i],
                                      fn_call.profile)]
    /\ fn_pc' = "returned"
    /\ UNCHANGED <<fn_call, notFn>>

\* analyze_files, parallel path: par_iter() hands every index to the pool
AnalyzeFilesParIter ==
    /\ fn_pc = "input"
    /\ fn_call.fn = "analyze_files"
    /\ Len(fn_call.metrics_list) >= ParallelThreshold
    /\ fn_ret' = [i \in 1..Len(fn_call.metrics_list) |-> None]
    /\ fn_pc' = "mapping"
    /\ UNCHANGED <<fn_call, notFn>>

\* a worker of the pool maps one record, in no fixed order
AnalyzeFilesMap(i) ==
    /\ fn_pc = "mapping"
    /\ i \in DOMAIN fn_ret
    /\ fn_ret[i] = None
    /\ fn_ret' = [fn_ret EXCEPT ![i] =
                    Some(AnalyzeFileResult(fn_call.metrics_list[i],
                                           fn_call.profile))]
    /\ UNCHANGED <<fn_pc, fn_call, notFn>>

\* collect() of an indexed parallel iterator with every item in the reverse
\* of its position
CollectVec_Reversed(slots) ==
    [i \in 1..Len(slots) |-> slots[Len(slots) + 1 - i][1]]

\* collect() of an indexed parallel iterator: every item at the position of
\* its input
CollectVec(slots) == [i \in 1..Len(slots) |-> slots[i][1]]

\* the parallel map is done and collect() returns the Vec
AnalyzeFilesCollect ==
    /\ fn_pc = "mapping"
    /\ \A i \in DOMAIN fn_ret : fn_ret[i] # None
    /\ fn_ret' = CollectVec(fn_ret)
    /\ fn_pc' = "returned"
    /\ UNCHANGED <<fn_call, notFn>>

FnCalls == {c \in MapToScoreCalls : c.in_min <= c.in_max}
    \cup IsLossyCalls
    \cup EstimateConfidenceCalls
    \cup CalculateDynamicsScoreCalls
    \cup GetEbur128StatsCalls
    \cup AnalyzeFilesCalls

InitFn ==
    /\ fn_pc = "input"
    /\ fn_call \in FnCalls
    /\ fn_ret = <<>>

\* map_to_score
CallMapToScore ==
    /\ fn_pc = "input"
    /\ fn_call.fn = "map_to_score"
    /\ fn_ret' = MapToScore(fn_call.value, fn_call.in_min, fn_call.in_max,
                            fn_call.out_min, fn_call.out_max)
    /\ fn_pc' = "returned"
    /\ UNCHANGED <<fn_call, notFn>>

NextFn ==
    \/ CallMapToScore
    \/ CallIsLossy
    \/ CallEstimateConfidence
    \/ CallCalculateDynamicsScore
    \/ CallGetEbur128Stats
    \/ AnalyzeFilesSequential
    \/ AnalyzeFilesParIter
    \/ \E i \in 1..MaxListLen : AnalyzeFilesMap(i)
    \/ AnalyzeFilesCollect

InitFunctions ==
    /\ InitFn
    /\ IdleLimiter
    /\ IdleProcessFile
    /\ IdleParse
    /\ IdleCache
    /\ IdleRun
    /\ IdleScore

SpecFn == InitFunctions /\ [][NextFn]_vars

Returned(fn) == fn_pc = "returned" /\ fn_call.fn = fn

LosslessIndicator(m) ==
    \/ m.file_ext \in {"flac", "alac", "wav", "aiff", "aif"}
    \/ m.codec_name \in {Some("pcm_s16le"), Some("flac"), Some("alac"),
                         Some("wavpack"), Some("ape")}
    \/ m.container_format \in {Some("flac"), Some("wav"), Some("aiff")}

\* the record names a lossy extension or codec
LossyIndicator(m) ==
    \/ m.file_ext \in {"mp3", "aac", "m4a", "ogg", "opus", "wma"}
    \/ m.codec_name \in {Some("mp3"), Some("aac"), Some("vorbis"),
                         Some("opus"), Some("wmav2"), Some("mp2"),
                         Some("ac3")}

\* C22: a record is never both lossless and lossy: with a lossless indicator
\* it is lossless and not lossy whatever its lossy indicators are, and with
\* no indicator of either kind it is neither.
C22_LosslessExcludesLossy ==
    Returned("is_lossy") =>
        /\ ~(fn_ret.is_lossless /\ fn_ret.is_lossy)
        /\ LosslessIndicator(fn_call.m)
              => fn_ret.is_lossless /\ ~fn_ret.is_lossy
        /\ (~LosslessIndicator(fn_call.m) /\ ~LossyIndicator(fn_call.m))
              => ~fn_ret.is_lossless /\ ~fn_ret.is_lossy

\* an mp3 file name with a lossless codec was classified lossless only
C22_Witness ==
    /\ Returned("is_lossy")
    /\ fn_call.m.file_ext = "mp3"
    /\ fn_call.m.codec_name = Some("alac")
    /\ fn_ret = [is_lossless |-> TRUE, is_lossy |-> FALSE]


\* the critical fields that are absent from a record: the three loudness and
\* spectrum fields, and the peak when both of its measurements are absent
AbsentCriticalFields(m) ==
    {f \in {"rms_db_above_18k", "lra", "integrated_loudness_lufs"} :
        m[f] = None}
    \cup (IF m.true_peak_dbtp = None /\ m.peak_amplitude_db = None
          THEN {"peak"} ELSE {})

\* C23: the confidence (in hundredths) is 100 less 18 for every absent
\* critical field less 8 for every error code, clamped to 10..100; it is
\* always within 10..100 and is 100 exactly when no critical field is absent
\* and no error code is attached.
C23_Confidence ==
    Returned("estimate_confidence") =>
        LET missing == Cardinality(AbsentCriticalFields(fn_call.m))
            codes == Len(fn_call.m.error_codes)
            linear == 100 - 18 * missing - 8 * codes
        IN /\ missing \in 0..4
           /\ fn_ret = (IF linear < 10 THEN 10
                        ELSE IF linear > 100 THEN 100 ELSE linear)
           /\ fn_ret \in 10..100
           /\ fn_ret = 100 <=> (missing = 0 /\ codes = 0)

\* a record with every critical field absent and three error codes got the
\* lowest confidence
C23_Witness ==
    /\ Returned("estimate_confidence")
    /\ Cardinality(AbsentCriticalFields(fn_call.m)) = 4
    /\ Len(fn_call.m.error_codes) = 3
    /\ fn_ret = 10


\* C26: the dynamics score is 20 inside the excellent band of the profile and
\* never rises as the loudness range moves away from the band: for a < b
\* below the band score(a) <= score(b), for a < b above it
\* score(a) >= score(b).
C26_DynamicsTapers ==
    Returned("calculate_dynamics_score") =>
        LET c == ProfileConfig(fn_call.profile)
            a == fn_call.a
            b == fn_call.b
            inBand(lra) == lra \in c.lra_excellent_min .. c.lra_excellent_max
        IN /\ inBand(a) => fn_ret.a = 20 * Scale
           /\ (a < b /\ b < c.lra_excellent_min) => fn_ret.a <= fn_ret.b
           /\ (c.lra_excellent_max < a /\ a < b) => fn_ret.a >= fn_ret.b


\* the value texts that are numbers
NumberTexts == {<<"1">>, <<"2">>, <<"3">>}

\* the value of a text, absent when the text is no number
ValueOf(text) ==
    IF text \in NumberTexts THEN Some(Finite(DigitValue[text[1]], 0))
    ELSE None

\* the last value the streaming lines print
LastStreamValue(lines) ==
    LET numbers == {k \in 1..Len(lines) : lines[k] \in NumberTexts} IN
    IF numbers = {} THEN None
    ELSE ValueOf(lines[CHOOSE k \in numbers : \A j \in numbers : j <= k])

\* C25: loudness range and true peak are the summary value or, when that is
\* absent or no number, the last value of the streaming lines; the operation
\* succeeds exactly when loudness range and integrated loudness are resolved,
\* and otherwise E_PARSE_EBUR128 is recorded and all three loudness fields
\* are absent, a true peak that parsed included.
C25_StreamFallback ==
    Returned("get_ebur128_stats") =>
        LET c == fn_call
            lra == IF ValueOf(c.lra) # None THEN ValueOf(c.lra)
                   ELSE LastStreamValue(c.lra_stream)
            i == ValueOf(c.i)
            tp == IF ValueOf(c.tp) # None THEN ValueOf(c.tp)
                  ELSE LastStreamValue(c.tpk_stream)
        IN IF lra # None /\ i # None
           THEN /\ fn_ret.error_codes = <<>>
                /\ fn_ret.lra = lra
                /\ fn_ret.integrated_loudness_lufs = i
                /\ fn_ret.true_peak_dbtp = tp
           ELSE /\ fn_ret.error_codes = <<"E_PARSE_EBUR128">>
                /\ fn_ret.lra = None
                /\ fn_ret.integrated_loudness_lufs = None
                /\ fn_ret.true_peak_dbtp = None

\* a report without a summary loudness range or true peak got both from the
\* last of two streaming lines
C25_Witness ==
    /\ Returned("get_ebur128_stats")
    /\ fn_call.lra = <<>>
    /\ fn_call.tp = <<"-">>
    /\ fn_call.lra_stream = <<<<"2">>, <<"3">>>>
    /\ fn_call.tpk_stream = <<<<"3">>, <<"2">>>>
    /\ fn_ret.lra = Some(Finite(3, 0))
    /\ fn_ret.true_peak_dbtp = Some(Finite(2, 0))


\* C27: analyze_files returns one analysis per record, in the order of the
\* input, each the analysis analyze_file gives that record, for lists below
\* the parallel threshold and for lists at or above it.
C27_AnalyzeFilesIsMap ==
    Returned("analyze_files") =>
        /\ Len(fn_ret) = Len(fn_call.metrics_list)
        /\ \A i \in 1..Len(fn_call.metrics_list) :
              fn_ret[i] = AnalyzeFileResult(fn_call.metrics_list[i],
                                            fn_call.profile)

\* a list at the threshold went through the parallel path and came back with
\* differing analyses at neighbouring positions
C27_Witness ==
    /\ Returned("analyze_files")
    /\ Len(fn_call.metrics_list) >= ParallelThreshold
    /\ fn_ret[1] # fn_ret[2]
    /\ fn_ret[2] # fn_ret[3]


\* C28: a record that fails the elite gate never gets a final score of 90 or
\* more, whatever its summed score is.
C28_NonEliteBelow90 ==
    (/\ score_pc = "analyzed"
     /\ ~(/\ analysis.status = "Good"
          /\ InEliteBands(scored_metrics, scorer_profile)
          /\ IsLossy(scored_metrics) =>
                SomeAtLeast(scored_metrics.bitrate_kbps,
                            ProfileConfig(scorer_profile).bitrate_high_kbps)))
    => analysis.quality_score < 90


\* C29: when run_command has returned after the spawn succeeded, the child
\* has ended and is reaped and neither reader thread is still running, and
\* the live external processes never outnumber the limiter's maximum.
C29_NothingOutlivesThePermit ==
    /\ \A t \in DOMAIN pc :
          (pc[t] = "done" /\ child[t] # "none") =>
              /\ child[t] = "reaped"
              /\ rdOut[t] # "live"
              /\ rdErr[t] # "live"
    /\ Cardinality({t \in DOMAIN pc : child[t] = "live"}) <= max_parallel


\* the metrics run_analysis pushed for file f
ResultsOf(f) == {i \in 1..Len(results) : results[i].file_path = f}

\* C24: a file whose fingerprint or metadata cannot be read is dropped alone:
\* it gets no metrics record and no cache entry of this run, every other
\* file gets its record and, with caching on, its cache entry, and the
\* failure never ends the run.
C24_FailedFileDroppedAlone ==
    /\ run_pc \in {"report", "done"} =>
          /\ \A f \in RunFiles :
                LET key == NormalizeCacheKey(f) IN
                IF file_pc[f] = "failed"
                THEN /\ ResultsOf(f) = {}
                     /\ key \in DOMAIN cache_data.entries =>
                           /\ key \in DOMAIN cache_snapshot.entries
                           /\ cache_data.entries[key]
                                 = cache_snapshot.entries[key]
                ELSE /\ file_pc[f] = "done"
                     /\ Cardinality(ResultsOf(f)) = 1
                     /\ \A i \in ResultsOf(f) :
                           results[i] = file_rec[f][1].metrics
                     /\ cache_enabled =>
                           /\ key \in DOMAIN cache_data.entries
                           /\ cache_data.entries[key]
                                 = CacheEntry(file_rec[f][1].fingerprint,
                                              file_rec[f][1].metrics)
          /\ Len(results)
                = Cardinality({f \in RunFiles : file_pc[f] = "done"})
    /\ run_pc = "aborted" =>
          \/ \A f \in RunFiles : file_pc[f] = "todo"
          \/ AllFilesFinished /\ processed_records = <<>>

\* a run with caching on completed although one of its two files failed
C24_Witness ==
    /\ run_pc = "done"
    /\ cache_enabled
    /\ file_pc["gone.flac"] = "failed"
    /\ file_pc["a.flac"] = "done"
    /\ Len(results) = 1


=============================================================================
